---------------------------- MODULE Spec2Model ----------------------------
(***************************************************************************)
(* Verification model of the sensor acquisition pipeline                   *)
(* (sensor_collector.py and the four drivers) and of the alarm actuator    *)
(* (buzzer_control.py, driven from the MQTT callback of iot_client.py),    *)
(* and of the report loop of iot_client.py.                                *)
(*                                                                         *)
(* Numbers are fixed-point integers in thousandths (Num(1) = 1000), so     *)
(* that round(x, 2) of a mean is integer arithmetic.  A dict is a          *)
(* function from a set of field names to numbers; the empty dict is        *)
(* Empty.  The 'timestamp' field (time.time()) is not modelled.            *)
(***************************************************************************)
EXTENDS Integers, Sequences, FiniteSets, TLC

VARIABLES
    \* ---- SensorCollector (sensor_collector.py) ----
    life,           \* "new" before SensorCollector(), "live" after, "closed" after close()
    initialized,    \* self.initialized
    sensors,        \* keys of self.sensors
    init_success,   \* self.init_success
    bmp_address,    \* SimpleBMP280.address of the registered driver (0 = none)
    reading_count,  \* self.reading_count
    pc,             \* "idle", or "window" inside collect_multiple_readings
    num_readings,   \* argument of the running collect_multiple_readings
    i,              \* its loop index
    all_readings,   \* its list all_readings
    result,         \* what the last finished call returned
    raised,         \* whether the last finished call raised to its caller
    sleeps,         \* time.sleep(interval) calls of the running/last window
    cycleLog,       \* history: the drivers' answers in each cycle of the call
    polls,          \* history: drivers polled by the last cycle, in order
    closeLog,       \* history of close(): number of calls, the drivers the
                    \* last call closed, those whose close() ever raised, and
                    \* how often each driver's close() was called so far
    initEnv,        \* history: the devices' answers during construction
    initTrace,      \* history: what _init_all_sensors attempted
    \* ---- BuzzerController (buzzer_control.py) ----
    buzzing,        \* self.buzzing
    gpio,           \* level of the output pin: "HIGH" (silent) or "LOW" (sounding)
    timer,          \* self.timer: id of a Timer, 0 = None
    timers,         \* the threading.Timer objects created so far
    caller,         \* the MQTT/main thread inside start_buzzing / stop_buzzing
    lastCall,       \* history: the caller's last call, a returned
                    \* start_buzzing or a begun stop_buzzing
    \* ---- the drivers on their own (aht21_simple.py, bmp280_simple.py) ----
    drv,            \* the last driver call: the device's response, what
                    \* read() returned, the fields the collector took from it
    \* ---- the report loop (iot_client.py) ----
    loop            \* the main thread's position in IotDevice_main, the
                    \* globals COLLECTOR_INITIALIZED and CONNECTED_FLAG,
                    \* report_count, and the history of the current cycle
                    \* and of the client.publish calls

collectorVars == <<life, initialized, sensors, init_success, bmp_address,
                   reading_count, pc, num_readings, i, all_readings, result,
                   raised, sleeps, cycleLog, polls, closeLog, initEnv, initTrace>>
buzzerVars == <<buzzing, gpio, timer, timers, caller, lastCall>>
driverVars == <<drv>>
loopVars == <<loop>>
vars == <<collectorVars, buzzerVars, driverVars, loopVars>>

-----------------------------------------------------------------------------
(* Bounds of the model *)

\* largest num_readings passed to collect_multiple_readings
MaxReadings == 2
\* cap on reading_count: a read starts only if it cannot pass it
MaxCount == 2
\* number of start_buzzing calls, each creating one Timer
MaxStarts == 2
\* number of close() calls on the collector
MaxCloses == 2

-----------------------------------------------------------------------------
(* Dicts and fixed-point numbers *)

Num(x) == x * 1000

Empty == <<>>

Has(d, k) == k \in DOMAIN d

\* 'not d' of a dict
IsEmpty(d) == DOMAIN d = {}

\* dict.get(k, default)
Get(d, k, default) == IF k \in DOMAIN d THEN d[k] ELSE default

\* dict.pop(k, None)
Pop(d, k) == [f \in (DOMAIN d) \ {k} |-> d[f]]

RECURSIVE SumSeq(_)
SumSeq(s) == IF s = <<>> THEN 0 ELSE Head(s) + SumSeq(Tail(s))

\* round(x, 2) of the exact quotient total/n, in thousandths: the nearest
\* multiple of 10, a tie going to the even hundredth
Round2(total, n) ==
    LET unit == 10 * n
        q == total \div unit
        r == total - q * unit
    IN  IF 2 * r < unit THEN 10 * q
        ELSE IF 2 * r > unit THEN 10 * (q + 1)
        ELSE IF q % 2 = 0 THEN 10 * q ELSE 10 * (q + 1)

\* round(statistics.mean(values), 2)
Mean2(values) == Round2(SumSeq(values), Len(values))

Kinds == {"aht21", "bmp280", "ens160", "mq2"}

\* the order in which read_single_measurement polls
PollOrder == <<"aht21", "bmp280", "ens160", "mq2">>


-----------------------------------------------------------------------------
(* Construction: the driver constructors and _init_all_sensors.            *)
(* The driver modules are taken to import (the *_AVAILABLE flags are True).*)

\* What the devices answer while the collector is constructed.
ProbeAnswers == {"id58", "other", "fault"}

InitEnvs ==
    [aht21 : {"ok", "fault"},           \* AHT21 soft reset / mode write
     r76 : ProbeAnswers,                \* chip-id read at 0x76
     r77 : ProbeAnswers,                \* chip-id read at 0x77
     bmpCfg : [{118, 119} -> BOOLEAN],  \* calibration read and config writes
                                        \* succeed at the address
     ens160 : {"ok", "badid", "fault"}, \* part-id read
     ensCfg : BOOLEAN,                  \* the two mode writes succeed
     mq2 : {"ok", "fault"},             \* ADS1115 set-up
     compReads : [1..3 -> {"ok", "fail"}],  \* AHT21.read() of each compensation try
     compSet : [1..3 -> BOOLEAN]]           \* set_environment() of each try

\* set_environment answers only a try whose read gave a pair
LoggedEnvs ==
    {env \in InitEnvs :
        \A j \in 1..3 : env.compSet[j] => env.compReads[j] = "ok"}

\* the answers drawn where they are not kept: the BMP280, when present,
\* answers at 0x76, and the compensation succeeds at once or never
PlainEnvs ==
    {env \in LoggedEnvs :
        /\ env.r77 = "fault" /\ env.r76 # "other"
        /\ env.bmpCfg[118] /\ env.bmpCfg[119]
        /\ env.ensCfg /\ env.ens160 # "badid"
        /\ \A j \in 2..3 : env.compReads[j] = "fail"}

\* AHT21_Reliable.__init__: TRUE when it returns, FALSE when it raises
AHT21_init(env) == env.aht21 = "ok"

Probe(address, env) == IF address = 118 THEN env.r76 ELSE env.r77

\* SimpleBMP280.__init__(address): ok = returns, address = the one it keeps
SimpleBMP280_init(address, env) ==
    LET first == Probe(address, env)
        found == IF first = "fault" THEN 0
                 ELSE IF first = "id58" THEN address
                 ELSE IF Probe(119, env) = "id58" THEN 119
                 ELSE 0
    IN  IF found # 0 /\ env.bmpCfg[found]
        THEN [ok |-> TRUE, address |-> found]
        ELSE [ok |-> FALSE, address |-> 0]

\* SimpleENS160.__init__
SimpleENS160_init(env) == env.ens160 = "ok" /\ env.ensCfg

\* SimpleMQ2.__init__
SimpleMQ2_init(env) == env.mq2 = "ok"

NoComp == [reads |-> 0, sets |-> 0, sleeps |-> 0, done |-> FALSE]

\* (variant for C23) the loop without its 'break': the later tries still run
RECURSIVE CompensateNoBreak(_, _, _)
CompensateNoBreak(env, j, acc) ==
    IF j > 3 THEN acc
    ELSE LET acc1 == [acc EXCEPT !.reads = @ + 1]
         IN  IF env.compReads[j] = "ok"
             THEN LET acc2 == [acc1 EXCEPT !.sets = @ + 1]
                  IN  IF env.compSet[j]
                      THEN CompensateNoBreak(env, j + 1,
                                             [acc2 EXCEPT !.done = TRUE])
                      ELSE CompensateNoBreak(env, j + 1,
                                             [acc2 EXCEPT !.sleeps = @ + 1])
             ELSE CompensateNoBreak(env, j + 1, [acc1 EXCEPT !.sleeps = @ + 1])

\* the body of 'for _ in range(3)' from try j on
RECURSIVE Compensate(_, _, _)
Compensate(env, j, acc) ==
    IF j > 3 THEN acc
    ELSE LET acc1 == [acc EXCEPT !.reads = @ + 1]
         IN  IF env.compReads[j] = "ok"
             THEN LET acc2 == [acc1 EXCEPT !.sets = @ + 1]
                  IN  IF env.compSet[j]
                      THEN [acc2 EXCEPT !.done = TRUE]
                      ELSE Compensate(env, j + 1, [acc2 EXCEPT !.sleeps = @ + 1])
             ELSE Compensate(env, j + 1, [acc1 EXCEPT !.sleeps = @ + 1])

\* the collector under construction, as __init__ leaves it before
\* _init_all_sensors
Fresh ==
    [sensors |-> {},
     init_success |-> [k \in Kinds |-> FALSE],
     bmp_address |-> 0,
     attempted |-> {},
     comp |-> NoComp]

Attempt(s, k) == [s EXCEPT !.attempted = @ \cup {k}]

Register(s, k) ==
    [s EXCEPT !.sensors = @ \cup {k}, !.init_success[k] = TRUE]

\* 1. AHT21
InitAHT21(s, env) ==
    LET a == Attempt(s, "aht21")
    IN  IF AHT21_init(env) THEN Register(a, "aht21") ELSE a

\* (variant for C25) only SimpleBMP280(address=0x76) is tried
InitBMP280PrimaryOnly(s, env) ==
    LET a == Attempt(s, "bmp280")
        first == SimpleBMP280_init(118, env)
    IN  IF first.ok
        THEN [Register(a, "bmp280") EXCEPT !.bmp_address = first.address]
        ELSE a

\* 2. BMP280: address 0x76, then 0x77
InitBMP280(s, env) ==
    LET a == Attempt(s, "bmp280")
        first == SimpleBMP280_init(118, env)
        second == SimpleBMP280_init(119, env)
    IN  IF first.ok
        THEN [Register(a, "bmp280") EXCEPT !.bmp_address = first.address]
        ELSE IF second.ok
        THEN [Register(a, "bmp280") EXCEPT !.bmp_address = second.address]
        ELSE a

\* (variant for C10) a compensation that never succeeds is taken as an
\* ENS160 failure: the flag is withdrawn
CompensateENS160Fatal(s, env) ==
    IF s.init_success["aht21"]
    THEN LET c == Compensate(env, 1, NoComp)
         IN  IF c.done THEN [s EXCEPT !.comp = c]
             ELSE [s EXCEPT !.comp = c, !.init_success["ens160"] = FALSE,
                            !.sensors = @ \ {"ens160"}]
    ELSE s

\* the environment compensation of a registered ENS160; it changes no flag
CompensateENS160(s, env) ==
    IF s.init_success["aht21"]
    THEN [s EXCEPT !.comp = Compensate(env, 1, NoComp)]
    ELSE s

\* 3. ENS160, with its environment compensation
InitENS160(s, env) ==
    LET a == Attempt(s, "ens160")
    IN  IF SimpleENS160_init(env)
        THEN CompensateENS160(Register(a, "ens160"), env)
        ELSE a

\* 4. MQ-2
InitMQ2(s, env) ==
    LET a == Attempt(s, "mq2")
    IN  IF SimpleMQ2_init(env) THEN Register(a, "mq2") ELSE a

\* (variant for C11) Ready only when all four drivers came up
AllSuccess(flags) == \A k \in Kinds : flags[k]

\* successful_sensors > 0
AnySuccess(flags) == \E k \in Kinds : flags[k]

init_all_sensors(env) ==
    InitMQ2(InitENS160(InitBMP280(InitAHT21(Fresh, env), env), env), env)

\* SensorCollector() as get_sensor_collector() calls it once, the devices
\* answering with one of envs.  keepLog says whether the answers are kept in
\* the history variables.
Construct(envs, keepLog) ==
    /\ life = "new"
    /\ \E env \in envs :
        LET s == init_all_sensors(env)
        IN  /\ sensors' = s.sensors
            /\ init_success' = s.init_success
            /\ bmp_address' = s.bmp_address
            /\ initialized' = AnySuccess(s.init_success)
            /\ initEnv' = IF keepLog THEN [logged |-> TRUE, env |-> env]
                          ELSE [logged |-> FALSE]
            /\ initTrace' = IF keepLog
                            THEN [logged |-> TRUE, attempted |-> s.attempted,
                                  comp |-> s.comp]
                            ELSE [logged |-> FALSE]
    /\ life' = "live"
    /\ reading_count' = 0
    /\ UNCHANGED <<pc, num_readings, i, all_readings, result, raised, sleeps,
                   cycleLog, polls, closeLog>>
    /\ UNCHANGED <<buzzerVars, driverVars, loopVars>>

-----------------------------------------------------------------------------
(* One cycle: the drivers' read() and read_single_measurement              *)

\* calculate_altitude(pressure), in thousandths, for the pressures the
\* model's readings and their means take:
\* round(44330 * (1 - (p / 1013.25) ** 0.1903), 2)
calculate_altitude(pressure_hpa) ==
    IF pressure_hpa <= 0 THEN 0
    ELSE CASE pressure_hpa = 300000 -> 9165370
           [] pressure_hpa = 333330 -> 8453270
           [] pressure_hpa = 450000 -> 6344640
           [] pressure_hpa = 500000 -> 5575350
           [] pressure_hpa = 560090 -> 4729260
           [] pressure_hpa = 560100 -> 4729120
           [] pressure_hpa = 561460 -> 4710840
           [] pressure_hpa = 561470 -> 4710710
           [] pressure_hpa = 600000 -> 4207130
           [] pressure_hpa = 633330 -> 3792210
           [] pressure_hpa = 666670 -> 3394500
           [] pressure_hpa = 900000 -> 988670
           [] pressure_hpa = 933330 -> 687710
           [] pressure_hpa = 950000 -> 540430
           [] pressure_hpa = 966670 -> 395230
           [] pressure_hpa = 1000000 -> 110900
           [] pressure_hpa = 1006410 -> 57100
           [] pressure_hpa = 1006430 -> 56940
           [] pressure_hpa = 1008890 -> 36360
           [] pressure_hpa = 1008910 -> 36200

\* What a driver's read() gives the collector: "ok" with its values, "fail"
\* (None or (None, None)), or "raise".  AHT21_Reliable.read, SimpleBMP280.read
\* and SimpleENS160.read catch every fault themselves; SimpleMQ2.read has no
\* handler and always returns a dict when the ADC answers.
AHT21Reads ==
    {[st |-> "fail"],
     [st |-> "ok", humidity |-> 40000, temperature |-> 20000]}

BMP280Reads ==
    {[st |-> "fail"],
     [st |-> "ok", temperature |-> 30000, pressure |-> 1000000],
     [st |-> "ok", temperature |-> 31000, pressure |-> 0]}

ENS160Reads ==
    {[st |-> "fail"],
     [st |-> "ok", aqi |-> Num(1), tvoc_ppb |-> Num(100), eco2_ppm |-> Num(400)]}

MQ2Reads ==
    {[st |-> "raise"],
     [st |-> "ok", adc |-> Num(4800), voltage |-> 900, status |-> Num(2)],
     [st |-> "ok", adc |-> Num(4805), voltage |-> 901, status |-> Num(2)]}

NotPolled == [st |-> "none"]

ReadsOf(k) ==
    CASE k = "aht21" -> AHT21Reads
      [] k = "bmp280" -> BMP280Reads
      [] k = "ens160" -> ENS160Reads
      [] k = "mq2" -> MQ2Reads

\* 'if self.init_success[k]' holds and self.sensors[k] exists: k's read() runs
Polled(flags, registry, k) == flags[k] /\ k \in registry

\* the answers the devices can give in one cycle: one per driver polled
AnswersOf(flags, registry, k) ==
    IF Polled(flags, registry, k) THEN ReadsOf(k) ELSE {NotPolled}

CycleEnvs(flags, registry) ==
    {[aht21 |-> a, bmp280 |-> b, ens160 |-> e, mq2 |-> m] :
        a \in AnswersOf(flags, registry, "aht21"),
        b \in AnswersOf(flags, registry, "bmp280"),
        e \in AnswersOf(flags, registry, "ens160"),
        m \in AnswersOf(flags, registry, "mq2")}

\* the fields each block of read_single_measurement adds for an answer r
FieldsAHT21(r) ==
    ("temperature_aht" :> r.temperature) @@ ("humidity" :> r.humidity)

FieldsBMP280(r) ==
    ("temperature_bmp" :> r.temperature) @@ ("pressure" :> r.pressure)
    @@ ("altitude" :> calculate_altitude(r.pressure))

FieldsENS160(r) ==
    ("aqi" :> r.aqi) @@ ("tvoc" :> r.tvoc_ppb) @@ ("eco2" :> r.eco2_ppm)

FieldsMQ2(r) ==
    ("mq2_adc" :> r.adc) @@ ("mq2_voltage" :> r.voltage)
    @@ ("mq2_status" :> r.status)

FieldsOf(k, r) ==
    CASE k = "aht21" -> FieldsAHT21(r)
      [] k = "bmp280" -> FieldsBMP280(r)
      [] k = "ens160" -> FieldsENS160(r)
      [] k = "mq2" -> FieldsMQ2(r)

\* (variant for C9) the block without its try/except: a raise leaves the call
BlockUnguarded(st, k, flags, registry, env) ==
    IF st.raised \/ ~flags[k] THEN st
    ELSE IF ~Polled(flags, registry, k) THEN st
    ELSE LET polled == [st EXCEPT !.polls = Append(@, k)]
         IN  IF env[k].st = "ok"
             THEN [polled EXCEPT !.data = FieldsOf(k, env[k]) @@ @]
             ELSE IF env[k].st = "raise"
             THEN [polled EXCEPT !.raised = TRUE]
             ELSE polled

\* One 'if self.init_success[k]: try: ... except Exception' block, run on the
\* state st = [data, polls, raised] of the call.  A block reached after the
\* call raised does not run.
Block(st, k, flags, registry, env) ==
    IF st.raised \/ ~flags[k] THEN st
    ELSE IF ~Polled(flags, registry, k) THEN st    \* KeyError, caught
    ELSE LET polled == [st EXCEPT !.polls = Append(@, k)]
         IN  IF env[k].st = "ok"
             THEN [polled EXCEPT !.data = FieldsOf(k, env[k]) @@ @]
             ELSE polled                       \* failure value, or caught raise

\* (variant for C20) the BMP280 value preferred over AHT21's
SelectTemperatureBmpFirst(data) ==
    IF Has(data, "temperature_bmp")
    THEN ("temperature" :> data["temperature_bmp"])
         @@ ("temperature_source" :> Num(1)) @@ data
    ELSE IF Has(data, "temperature_aht")
    THEN ("temperature" :> data["temperature_aht"])
         @@ ("temperature_source" :> Num(0)) @@ data
    ELSE data

\* lines 225-238: the final temperature, the temporary fields, the tag
SelectTemperature(data) ==
    IF Has(data, "temperature_aht")
    THEN ("temperature" :> data["temperature_aht"])
         @@ ("temperature_source" :> Num(0)) @@ data
    ELSE IF Has(data, "temperature_bmp")
    THEN ("temperature" :> data["temperature_bmp"])
         @@ ("temperature_source" :> Num(1)) @@ data
    ELSE data

SingleTag(data) == ("data_source" :> Num(0)) @@ data

Finalize(data, count) ==
    SingleTag(Pop(Pop(SelectTemperature(
        ("reading_count" :> Num(count)) @@ data), "temperature_aht"),
        "temperature_bmp"))

RECURSIVE Blocks(_, _, _, _, _)
Blocks(st, order, flags, registry, env) ==
    IF order = <<>> THEN st
    ELSE Blocks(Block(st, Head(order), flags, registry, env), Tail(order),
                flags, registry, env)

\* (variant for C22) the counter incremented by a dropped cycle too
read_single_measurementCounting(flags, registry, env, count) ==
    LET st == Blocks([data |-> Empty, polls |-> <<>>, raised |-> FALSE],
                     PollOrder, flags, registry, env)
    IN  IF ~st.raised /\ ~IsEmpty(st.data)
        THEN [ret |-> "dict", data |-> Finalize(st.data, count),
              count |-> count + 1, polls |-> st.polls, raised |-> FALSE]
        ELSE [ret |-> "None", data |-> Empty, count |-> count + 1,
              polls |-> st.polls, raised |-> st.raised]

\* read_single_measurement with self.reading_count = count:
\* [ret: "dict" or "None", data, count: the new reading_count, polls, raised]
read_single_measurement(flags, registry, env, count) ==
    LET st == Blocks([data |-> Empty, polls |-> <<>>, raised |-> FALSE],
                     PollOrder, flags, registry, env)
    IN  IF st.raised
        THEN [ret |-> "None", data |-> Empty, count |-> count,
              polls |-> st.polls, raised |-> TRUE]
        ELSE IF ~IsEmpty(st.data)
        THEN [ret |-> "dict", data |-> Finalize(st.data, count),
              count |-> count + 1, polls |-> st.polls, raised |-> FALSE]
        ELSE [ret |-> "None", data |-> Empty, count |-> count,
              polls |-> st.polls, raised |-> FALSE]

-----------------------------------------------------------------------------
(* The window: collect_multiple_readings and _calculate_averages           *)

\* the keys reduced by 'last value' instead of the mean (line 310)
Categorical == {"aqi", "mq2_status", "temperature_source"}

\* (variant for C12) a reading without the key counts as 0, so that the
\* divisor is the window length
ValuesOfPadded(readings, key) ==
    [j \in 1..Len(readings) |-> Get(readings[j], key, 0)]

\* numeric_fields[key]: the values of key over the readings that hold it
ValuesOf(readings, key) ==
    LET having == SelectSeq(readings, LAMBDA r : Has(r, key))
    IN  [j \in 1..Len(having) |-> having[j][key]]

\* last_reading.get(key, 0)
LastValue(readings, key) == Get(readings[Len(readings)], key, 0)

\* the value result[key] is assigned in the loop over numeric_fields
ReduceField(readings, key) ==
    IF key \in Categorical THEN LastValue(readings, key)
    ELSE Mean2(ValuesOf(readings, key))

\* the dict 'result' before the loop (lines 290-294)
InitialResult(readings) ==
    ("samples_count" :> Num(Len(readings))) @@ ("data_source" :> Num(1))

\* every key of every reading is numeric, so each is assigned in the loop and
\* overwrites an entry of the initial dict of the same name
ReduceAll(readings) ==
    LET keys == UNION {DOMAIN readings[j] : j \in 1..Len(readings)}
    IN  [k \in keys |-> ReduceField(readings, k)] @@ InitialResult(readings)

\* (variant for C13) the averaged altitude is kept
WithAltitudeMean(res) == res

\* (variant for C5) altitude derived from result.get('pressure', 0)
WithAltitudeAlways(res) ==
    ("altitude" :> calculate_altitude(Get(res, "pressure", 0))) @@ res

\* lines 318-320
WithAltitude(res) ==
    IF Has(res, "pressure")
    THEN ("altitude" :> calculate_altitude(res["pressure"])) @@ res
    ELSE res

calculate_averages(readings) ==
    IF readings = <<>> THEN Empty ELSE WithAltitude(ReduceAll(readings))

\* the dict returned for a window without readings (lines 274-278)
EmptyWindowResult == ("error_code" :> Num(1)) @@ ("samples_count" :> Num(0))

\* (variant for C1) no 'if not all_readings' guard: the reduction's own {}
WindowResultSilent(readings) == calculate_averages(readings)

\* what collect_multiple_readings returns for its list all_readings
WindowResult(readings) ==
    IF readings = <<>> THEN EmptyWindowResult
    ELSE calculate_averages(readings)

NoResult == [op |-> "none", ret |-> "None", data |-> Empty]

\* a direct call of read_single_measurement
ReadSingle ==
    /\ life # "new"
    /\ pc = "idle"
    /\ reading_count < MaxCount
    /\ \E env \in CycleEnvs(init_success, sensors) :
        LET r == read_single_measurement(init_success, sensors, env,
                                         reading_count)
        IN  /\ result' = [op |-> "single", ret |-> r.ret, data |-> r.data]
            /\ reading_count' = r.count
            /\ polls' = r.polls
            /\ raised' = r.raised
            /\ cycleLog' = <<env>>
    /\ all_readings' = <<>>
    /\ num_readings' = 0
    /\ i' = 0
    /\ sleeps' = 0
    /\ UNCHANGED <<life, initialized, sensors, init_success, bmp_address, pc,
                   closeLog, initEnv, initTrace>>
    /\ UNCHANGED <<buzzerVars, driverVars, loopVars>>

\* collect_multiple_readings(n, interval) up to its loop
StartWindow ==
    /\ life # "new"
    /\ pc = "idle"
    /\ \E n \in 0..MaxReadings :
        /\ reading_count + n <= MaxCount
        /\ num_readings' = n
    /\ pc' = "window"
    /\ i' = 0
    /\ all_readings' = <<>>
    /\ cycleLog' = <<>>
    /\ polls' = <<>>
    /\ sleeps' = 0
    /\ raised' = FALSE
    /\ result' = [op |-> "window", ret |-> "pending", data |-> Empty]
    /\ UNCHANGED <<life, initialized, sensors, init_success, bmp_address,
                   reading_count, closeLog, initEnv, initTrace>>
    /\ UNCHANGED <<buzzerVars, driverVars, loopVars>>

\* (variant for C19) a sleep after every iteration, the last included
SleepsAfterEvery(index, n) == index < n

\* whether the loop sleeps after iteration index (line 269)
SleepsAfter(index, n) == index < n - 1

\* (variant for C18) the cycle's result is appended whatever it is, a None
\* as a reading without fields
AppendAlways(readings, r) == Append(readings, r.data)

\* lines 257-265: all_readings after a cycle whose read_single_measurement
\* gave r; a None (or a raise) appends nothing
AppendReading(readings, r) ==
    IF ~r.raised /\ r.ret = "dict" THEN Append(readings, r.data)
    ELSE readings

\* one iteration of 'for i in range(num_readings)'
Cycle ==
    /\ pc = "window"
    /\ i < num_readings
    /\ \E env \in CycleEnvs(init_success, sensors) :
        LET r == read_single_measurement(init_success, sensors, env,
                                         reading_count)
        IN  /\ all_readings' = AppendReading(all_readings, r)
            /\ reading_count' = r.count
            /\ polls' = r.polls
            /\ cycleLog' = Append(cycleLog, env)
    /\ sleeps' = IF SleepsAfter(i, num_readings) THEN sleeps + 1 ELSE sleeps
    /\ i' = i + 1
    /\ UNCHANGED <<life, initialized, sensors, init_success, bmp_address, pc,
                   num_readings, result, raised, closeLog, initEnv, initTrace>>
    /\ UNCHANGED <<buzzerVars, driverVars, loopVars>>

\* the end of collect_multiple_readings (lines 272-283)
FinishWindow ==
    /\ pc = "window"
    /\ i = num_readings
    /\ result' = [op |-> "window", ret |-> "dict",
                  data |-> WindowResult(all_readings)]
    /\ pc' = "idle"
    /\ UNCHANGED <<life, initialized, sensors, init_success, bmp_address,
                   reading_count, num_readings, i, all_readings, raised,
                   sleeps, cycleLog, polls, closeLog, initEnv, initTrace>>
    /\ UNCHANGED <<buzzerVars, driverVars, loopVars>>

\* the registered drivers in the order close() visits them (insertion order)
RegisteredSeq(registry) == SelectSeq(PollOrder, LAMBDA k : k \in registry)

\* what a driver's close() can do: AHT21_Reliable.close and
\* SimpleENS160.close call bus.close() unguarded, SimpleBMP280.close catches
\* its own fault and SimpleMQ2.close is 'pass'
CloseAnswers(k) ==
    IF k \in {"aht21", "ens160"} THEN {"ok", "raise"} ELSE {"ok"}

NoCloses ==
    [n |-> 0, called |-> <<>>, raisedBy |-> {}, count |-> [k \in Kinds |-> 0]]

\* (variant for C14) the loop without its try/except: the first close() that
\* raises ends it
RECURSIVE CloseAllAbort(_, _, _)
CloseAllAbort(order, answers, acc) ==
    IF order = <<>> THEN acc
    ELSE IF answers[Head(order)] = "raise" THEN Append(acc, Head(order))
    ELSE CloseAllAbort(Tail(order), answers, Append(acc, Head(order)))

\* 'for name, sensor in self.sensors.items()': the drivers whose close() is
\* called, each inside its own try/except (every driver class has close)
RECURSIVE CloseAll(_, _, _)
CloseAll(order, answers, acc) ==
    IF order = <<>> THEN acc
    ELSE CloseAll(Tail(order), answers, Append(acc, Head(order)))

\* (variant for C21) a close() that also clears the availability table
close_fieldsCleared(flags) ==
    [initialized |-> FALSE, sensors |-> {}, init_success |-> [k \in Kinds |-> FALSE]]

\* the collector's fields after close(): 'self.sensors.clear()' and
\* 'self.initialized = False' are its only assignments
close_fields(flags) ==
    [initialized |-> FALSE, sensors |-> {}, init_success |-> flags]

\* close(): never raises, whatever the drivers' close() do
CloseCollector ==
    /\ life # "new"
    /\ pc = "idle"
    /\ closeLog.n < MaxCloses
    /\ \E answers \in [sensors -> {"ok", "raise"}] :
        /\ \A k \in sensors : answers[k] \in CloseAnswers(k)
        /\ LET called == CloseAll(RegisteredSeq(sensors), answers, <<>>)
               times(k) == Cardinality({j \in 1..Len(called) : called[j] = k})
           IN  closeLog' =
                   [n |-> closeLog.n + 1,
                    called |-> called,
                    raisedBy |-> closeLog.raisedBy
                                 \cup {k \in sensors : answers[k] = "raise"},
                    count |-> [k \in Kinds |-> closeLog.count[k] + times(k)]]
    /\ initialized' = close_fields(init_success).initialized
    /\ sensors' = close_fields(init_success).sensors
    /\ init_success' = close_fields(init_success).init_success
    /\ life' = "closed"
    /\ result' = [op |-> "close", ret |-> "None", data |-> Empty]
    /\ raised' = FALSE
    /\ num_readings' = 0
    /\ i' = 0
    /\ all_readings' = <<>>
    /\ sleeps' = 0
    /\ cycleLog' = <<>>
    /\ polls' = <<>>
    /\ UNCHANGED <<bmp_address, reading_count, pc, initEnv, initTrace>>

\* a call of close() on the collector
Close ==
    /\ CloseCollector
    /\ UNCHANGED <<buzzerVars, driverVars, loopVars>>

\* '1 if x else 0'
Flag01(b) == IF b THEN Num(1) ELSE Num(0)

\* the dict get_sensor_status returns, the nested 'sensor_status' dict
\* flattened to dotted keys and the wall-clock 'timestamp' left out
get_sensor_status(init, flags, count) ==
    ("initialized" :> Flag01(init))
    @@ ("total_readings" :> Num(count))
    @@ [key \in {"sensor_status." \o k : k \in Kinds} |->
          Flag01(\E k \in Kinds : key = "sensor_status." \o k /\ flags[k])]

\* a call of get_sensor_status: it assigns no field of the collector
GetStatus ==
    /\ life # "new"
    /\ pc = "idle"
    /\ result' = [op |-> "status", ret |-> "dict",
                  data |-> get_sensor_status(initialized, init_success,
                                             reading_count)]
    /\ raised' = FALSE
    /\ num_readings' = 0
    /\ i' = 0
    /\ all_readings' = <<>>
    /\ sleeps' = 0
    /\ cycleLog' = <<>>
    /\ polls' = <<>>
    /\ UNCHANGED <<life, initialized, sensors, init_success, bmp_address,
                   reading_count, pc, closeLog, initEnv, initTrace>>
    /\ UNCHANGED <<buzzerVars, driverVars, loopVars>>

-----------------------------------------------------------------------------
(* BuzzerController.  start_buzzing is called from the MQTT callback       *)
(* on_message, cleanup() from the main thread once the MQTT loop thread    *)
(* has been stopped; these calls never overlap and are one thread here,    *)
(* the caller.  Every threading.Timer runs                                 *)
(* stop_buzzing on a thread of its own.  No lock is taken anywhere, so the *)
(* threads interleave between statements.                                  *)
(*                                                                         *)
(* A Timer is [state, finished, pc]: state "new" (created), "waiting"      *)
(* (started, inside finished.wait), "firing" (the wait timed out with      *)
(* finished unset: the callback runs, at pc) or "done"; finished is its    *)
(* Event, set by cancel() and after the callback.                          *)

IdleCaller == [pc |-> "idle", op |-> "none", active |-> FALSE]

NewTimer == [state |-> "new", finished |-> FALSE, pc |-> "none"]

\* Timer.is_alive()
IsAlive(t) == t.state \in {"waiting", "firing"}

\* the statement of stop_buzzing at position p, run on the shared state:
\* the position that follows ("sb_ret": the method returns) and the new
\* values of buzzing, the pin and the timers
stop_buzzing(p) ==
    LET same == [next |-> "sb_ret", buzzing |-> buzzing, gpio |-> gpio,
                 timers |-> timers]
    IN  CASE p = "sb_check" ->      \* if self.buzzing:
               [same EXCEPT !.next = IF buzzing THEN "sb_high" ELSE "sb_test"]
          [] p = "sb_high" ->       \* GPIO.output(pin, GPIO.HIGH): RuntimeError
                                    \* once GPIO.cleanup released the pin
               IF gpio = "IN" THEN [same EXCEPT !.next = "sb_raise"]
               ELSE [same EXCEPT !.next = "sb_clear", !.gpio = "HIGH"]
          [] p = "sb_clear" ->      \* self.buzzing = False
               [same EXCEPT !.next = "sb_test", !.buzzing = FALSE]
          [] p = "sb_test" ->       \* if self.timer and self.timer.is_alive():
               [same EXCEPT !.next = IF timer # 0 /\ IsAlive(timers[timer])
                                     THEN "sb_cancel" ELSE "sb_ret"]
          [] p = "sb_cancel" ->     \* self.timer.cancel()
               [same EXCEPT !.timers = [timers EXCEPT ![timer].finished = TRUE]]

StopPositions == {"sb_check", "sb_high", "sb_clear", "sb_test", "sb_cancel"}

\* on_message: BUZZER_CONTROLLER.start_buzzing(duration_seconds=60) is entered
CallStart ==
    /\ caller.pc = "idle"
    /\ Len(timers) < MaxStarts
    /\ caller' = [pc |-> "st_check", op |-> "start", active |-> FALSE]
    /\ UNCHANGED <<buzzing, gpio, timer, timers, lastCall>>
    /\ UNCHANGED <<collectorVars, driverVars, loopVars>>

\* cleanup() is entered: its first statement is self.stop_buzzing()
CallCleanup ==
    /\ caller.pc = "idle"
    /\ caller' = [pc |-> "sb_check", op |-> "cleanup", active |-> buzzing]
    /\ lastCall' = [op |-> "cleanup"]
    /\ UNCHANGED <<buzzing, gpio, timer, timers>>
    /\ UNCHANGED <<collectorVars, driverVars, loopVars>>

\* GPIO.cleanup(pin), the last statement of cleanup(): the pin is released
\* to an input; the controller is not used again
CallerCleanup ==
    /\ caller.pc = "cl_gpio"
    /\ gpio' = "IN"
    /\ caller' = [caller EXCEPT !.pc = "exited"]
    /\ UNCHANGED <<buzzing, timer, timers, lastCall>>
    /\ UNCHANGED <<collectorVars, driverVars, loopVars>>

\* stop_buzzing() is entered by the caller itself
CallStop ==
    /\ caller.pc = "idle"
    /\ caller' = [pc |-> "sb_check", op |-> "stop", active |-> buzzing]
    /\ lastCall' = [op |-> "stop"]
    /\ UNCHANGED <<buzzing, gpio, timer, timers>>
    /\ UNCHANGED <<collectorVars, driverVars, loopVars>>

\* the caller runs one statement of stop_buzzing, called directly, from
\* start_buzzing (line 46) or from cleanup (line 71), and goes on after it
\* where the call came from
CallerStop ==
    /\ caller.pc \in StopPositions
    /\ LET r == stop_buzzing(caller.pc)
           after == IF caller.op = "start" THEN "st_low"
                    ELSE IF caller.op = "cleanup" THEN "cl_gpio"
                    ELSE "idle"
       IN  /\ buzzing' = r.buzzing
           /\ gpio' = r.gpio
           /\ timers' = r.timers
           /\ caller' = IF r.next = "sb_ret"
                        THEN [caller EXCEPT !.pc = after]
                        ELSE [caller EXCEPT !.pc = r.next]
    /\ UNCHANGED <<timer, lastCall>>
    /\ UNCHANGED <<collectorVars, driverVars, loopVars>>

\* the caller runs one statement of start_buzzing
CallerStart ==
    /\ \/ /\ caller.pc = "st_check"         \* if self.buzzing: self.stop_buzzing()
          /\ caller' = [caller EXCEPT !.active = buzzing,
                           !.pc = IF buzzing THEN "sb_check" ELSE "st_low"]
          /\ UNCHANGED <<buzzing, gpio, timer, timers, lastCall>>
       \/ /\ caller.pc = "st_low"           \* GPIO.output(pin, GPIO.LOW)
          /\ gpio' = "LOW"
          /\ caller' = [caller EXCEPT !.pc = "st_set"]
          /\ UNCHANGED <<buzzing, timer, timers, lastCall>>
       \/ /\ caller.pc = "st_set"           \* self.buzzing = True
          /\ buzzing' = TRUE
          /\ caller' = [caller EXCEPT !.pc = "st_new"]
          /\ UNCHANGED <<gpio, timer, timers, lastCall>>
       \/ /\ caller.pc = "st_new"           \* self.timer = threading.Timer(...)
          /\ timers' = Append(timers, NewTimer)
          /\ timer' = Len(timers) + 1
          /\ caller' = [caller EXCEPT !.pc = "st_start"]
          /\ UNCHANGED <<buzzing, gpio, lastCall>>
       \/ /\ caller.pc = "st_start"         \* self.timer.start(); return
          /\ timers' = [timers EXCEPT ![timer].state = "waiting"]
          /\ lastCall' = [op |-> "start", timer |-> timer,
                          active |-> caller.active]
          /\ caller' = IdleCaller
          /\ UNCHANGED <<buzzing, gpio, timer>>
    /\ UNCHANGED <<collectorVars, driverVars, loopVars>>

\* Timer.run: the wait of timer id times out and finished is not set, so the
\* callback stop_buzzing is called
TimerExpire ==
    /\ \E id \in 1..Len(timers) :
        /\ timers[id].state = "waiting"
        /\ ~timers[id].finished
        /\ timers' = [timers EXCEPT ![id].state = "firing",
                                    ![id].pc = "sb_check"]
    /\ UNCHANGED <<buzzing, gpio, timer, caller, lastCall>>
    /\ UNCHANGED <<collectorVars, driverVars, loopVars>>

\* Timer.run: the wait of a cancelled timer ends and the callback is skipped
TimerExit ==
    /\ \E id \in 1..Len(timers) :
        /\ timers[id].state = "waiting"
        /\ timers[id].finished
        /\ timers' = [timers EXCEPT ![id].state = "done"]
    /\ UNCHANGED <<buzzing, gpio, timer, caller, lastCall>>
    /\ UNCHANGED <<collectorVars, driverVars, loopVars>>

\* the thread of a firing timer runs one statement of stop_buzzing; after
\* the last one Timer.run sets finished and the thread ends; an exception
\* of the callback ends the thread with finished as it was
TimerCallback ==
    /\ \E id \in 1..Len(timers) :
        /\ timers[id].state = "firing"
        /\ LET r == stop_buzzing(timers[id].pc)
           IN  /\ buzzing' = r.buzzing
               /\ gpio' = r.gpio
               /\ timers' = IF r.next = "sb_ret"
                            THEN [r.timers EXCEPT ![id].state = "done",
                                                  ![id].finished = TRUE,
                                                  ![id].pc = "none"]
                            ELSE IF r.next = "sb_raise"  \* the thread dies
                            THEN [r.timers EXCEPT ![id].state = "done",
                                                  ![id].pc = "none"]
                            ELSE [r.timers EXCEPT ![id].pc = r.next]
    /\ UNCHANGED <<timer, caller, lastCall>>
    /\ UNCHANGED <<collectorVars, driverVars, loopVars>>

-----------------------------------------------------------------------------
(* The drivers' read() on the device's raw response.  A value that may be  *)
(* None is a sequence: <<>> is None, <<x>> the number x (in thousandths).  *)

None == <<>>

NoCall == [fn |-> "none"]

\* the nearest integer to a / b (a >= 0, b > 0), a tie going to the even one
RoundDiv(a, b) ==
    LET q == a \div b
        r == a - q * b
    IN  IF 2 * r < b THEN q
        ELSE IF 2 * r > b THEN q + 1
        ELSE IF q % 2 = 0 THEN q ELSE q + 1

\* what the AHT21 answers to the measurement command: a bus fault, or six
\* bytes (byte 0 is the status byte)
AHT21Responses ==
    [bus : {"ok"},
     data : {<<28, d1, d2, d3, d4, d5>> :
                d1 \in {0, 102, 255}, d2 \in {102, 255},
                d3 \in {5, 101, 106, 255}, d4 \in {0, 153, 255},
                d5 \in {0, 154}}]
    \cup {[bus |-> "fault", data |-> <<>>]}

\* the fields of the response as the driver indexes them (data[0]..data[5])
Byte(resp, n) == resp.data[n + 1]

humidity_raw(resp) ==
    Byte(resp, 1) * 4096 + Byte(resp, 2) * 16 + (Byte(resp, 3) \div 16)

temperature_raw(resp) ==
    (Byte(resp, 3) % 16) * 65536 + Byte(resp, 4) * 256 + Byte(resp, 5)

\* 0 <= raw / 2^20 * 100 <= 100
HumidityInRange(raw) == 0 <= raw * 100 /\ raw * 100 <= 100 * 1048576

\* -40 <= raw / 2^20 * 200 - 50 <= 85
TemperatureInRange(raw) ==
    10 * 1048576 <= raw * 200 /\ raw * 200 <= 135 * 1048576

NonePair == [raised |-> FALSE, humidity |-> None, temperature |-> None]

\* (variant for C15) an out-of-range temperature is clamped to [-40, 85]
AHT21_readClamped(resp) ==
    IF resp.bus = "fault" THEN NonePair
    ELSE LET t == (RoundDiv(temperature_raw(resp) * 2000, 1048576) - 500) * 100
             clamped == IF t < Num(0 - 40) THEN Num(0 - 40)
                        ELSE IF t > Num(85) THEN Num(85) ELSE t
         IN  [raised |-> FALSE,
              humidity |-> <<RoundDiv(humidity_raw(resp) * 1000, 1048576) * 100>>,
              temperature |-> <<clamped>>]

\* AHT21_Reliable.read: (round(humidity, 1), round(temperature, 1)), or
\* (None, None) out of range or after any fault (bare except)
AHT21_read(resp) ==
    IF resp.bus = "fault" THEN NonePair
    ELSE IF /\ HumidityInRange(humidity_raw(resp))
            /\ TemperatureInRange(temperature_raw(resp))
    THEN [raised |-> FALSE,
          humidity |-> <<RoundDiv(humidity_raw(resp) * 1000, 1048576) * 100>>,
          temperature |->
              <<(RoundDiv(temperature_raw(resp) * 2000, 1048576) - 500) * 100>>]
    ELSE NonePair

\* what the collector makes of the pair: 'if humidity is not None and
\* temperature is not None' (line 171)
AnswerAHT21(out) ==
    IF out.raised THEN [st |-> "raise"]
    ELSE IF out.humidity # None /\ out.temperature # None
    THEN [st |-> "ok", humidity |-> out.humidity[1],
          temperature |-> out.temperature[1]]
    ELSE [st |-> "fail"]

\* the fields the block of kind k adds to an empty reading for an answer
BlockFields(k, answer) ==
    Block([data |-> Empty, polls |-> <<>>, raised |-> FALSE], k,
          [kk \in Kinds |-> TRUE], Kinds,
          [kk \in Kinds |-> IF kk = k THEN answer ELSE NotPolled]).data

\* A BMP280 as the driver sees it in read(): the calibration words it read
\* at construction and the six data bytes at 0xF7, or a bus fault.  The
\* temperature bytes and dig_T1..dig_T3 are such that t_fine = 128000.
BMP280Devices ==
    [bus : {"ok", "fault"},
     dig_T1 : {27504}, dig_T2 : {20480}, dig_T3 : {0},
     dig_P1 : {0, 36477, 65535}, dig_P2 : {0 - 10685}, dig_P3 : {3024},
     data : {<<101, d1, d2, 132, 112, 0>> : d1 \in {0, 90}, d2 \in {0, 192}}]

\* _read_raw_data
press_raw(dev) ==
    Byte(dev, 0) * 4096 + Byte(dev, 1) * 16 + (Byte(dev, 2) \div 16)

temp_raw(dev) ==
    Byte(dev, 3) * 4096 + Byte(dev, 4) * 16 + (Byte(dev, 5) \div 16)

\* _compensate_temperature: self.t_fine
t_fine(dev) ==
    LET var1 == (((temp_raw(dev) \div 8) - dev.dig_T1 * 2) * dev.dig_T2)
                    \div 2048
        d == (temp_raw(dev) \div 16) - dev.dig_T1
        var2 == (((d * d) \div 4096) * dev.dig_T3) \div 16384
    IN  var1 + var2

\* _compensate_temperature: temperature / 100.0, in thousandths
compensate_temperature(dev) == ((t_fine(dev) * 5 + 128) \div 256) * 10

\* lines 102-107: var1 = ((1 << 47) + var1) * dig_P1 >> 33, written as
\* 2^14 * dig_P1 + ((var1 * dig_P1) >> 33), which is the same integer
FirstStageDivisor(dev) ==
    LET v == t_fine(dev) - 128000
        var1 == ((v * v * dev.dig_P3) \div 256) + (v * dev.dig_P2) * 4096
    IN  16384 * dev.dig_P1 + (((var1 * dev.dig_P1) \div 65536) \div 131072)

\* lines 110-116 with dig_P4..dig_P9 = 2855, 140, -7, 15500, -14600, 6000
\* and t_fine = 128000: p / 25600.0 rounded to two decimals, for the
\* devices of the model
SecondStage(dev) ==
    CASE dev.dig_P1 = 36477 /\ press_raw(dev) = 413696 -> 1008910
      [] dev.dig_P1 = 36477 /\ press_raw(dev) = 413708 -> 1008890
      [] dev.dig_P1 = 36477 /\ press_raw(dev) = 415136 -> 1006430
      [] dev.dig_P1 = 36477 /\ press_raw(dev) = 415148 -> 1006410
      [] dev.dig_P1 = 65535 /\ press_raw(dev) = 413696 -> 561470
      [] dev.dig_P1 = 65535 /\ press_raw(dev) = 413708 -> 561460
      [] dev.dig_P1 = 65535 /\ press_raw(dev) = 415136 -> 560100
      [] dev.dig_P1 = 65535 /\ press_raw(dev) = 415148 -> 560090

\* (variant for C16) no 'if var1 == 0' guard: the division is evaluated and
\* raises ZeroDivisionError
compensate_pressureUnguarded(dev) ==
    IF FirstStageDivisor(dev) = 0
    THEN [value |-> None, divzero |-> TRUE, raised |-> TRUE]
    ELSE [value |-> <<SecondStage(dev)>>, divzero |-> FALSE, raised |-> FALSE]

\* _compensate_pressure: None when the first-stage divisor is 0
compensate_pressure(dev) ==
    IF FirstStageDivisor(dev) = 0
    THEN [value |-> None, divzero |-> FALSE, raised |-> FALSE]
    ELSE [value |-> <<SecondStage(dev)>>, divzero |-> FALSE, raised |-> FALSE]

\* SimpleBMP280.read: every Exception is caught and gives (None, None)
BMP280_read(dev) ==
    LET nothing == [raised |-> FALSE, divzero |-> FALSE,
                    temperature |-> None, pressure |-> None]
    IN  IF dev.bus = "fault" THEN nothing
        ELSE LET p == compensate_pressure(dev)
             IN  IF p.raised THEN [nothing EXCEPT !.divzero = p.divzero]
                 ELSE IF p.value = None THEN nothing
                 ELSE [raised |-> FALSE, divzero |-> FALSE,
                       temperature |-> <<compensate_temperature(dev)>>,
                       pressure |-> p.value]

\* 'if temp_bmp is not None and pressure is not None' (line 182)
AnswerBMP280(out) ==
    IF out.raised THEN [st |-> "raise"]
    ELSE IF out.temperature # None /\ out.pressure # None
    THEN [st |-> "ok", temperature |-> out.temperature[1],
          pressure |-> out.pressure[1]]
    ELSE [st |-> "fail"]

\* the collector's AHT21 block on a device that answers resp
AHT21Read ==
    /\ \E resp \in AHT21Responses :
        LET out == AHT21_read(resp)
        IN  drv' = [fn |-> "AHT21.read", in |-> resp, out |-> out,
                    data |-> BlockFields("aht21", AnswerAHT21(out))]
    /\ UNCHANGED <<collectorVars, buzzerVars, loopVars>>

\* the collector's BMP280 block on the device dev
BMP280Read ==
    /\ \E dev \in BMP280Devices :
        LET out == BMP280_read(dev)
        IN  drv' = [fn |-> "BMP280.read", in |-> dev, out |-> out,
                    data |-> BlockFields("bmp280", AnswerBMP280(out))]
    /\ UNCHANGED <<collectorVars, buzzerVars, loopVars>>

\* SimpleENS160.set_environment.  Temperatures and humidities are counted
\* in hundredths (of a degree Celsius, of a percent), the grid on which the
\* collector's AHT21 values lie.
TemperatureGrid == {-4000, -3990, -2000, 0, 2000, 2485, 2500, 2501, 8500}

HumidityGrid == {0, 4000, 5000, 5010, 9990, 10000}

\* the bus during the two block writes: both succeed, the write of register
\* 0x13 faults, or the write of register 0x15 faults
SetEnvironmentCalls ==
    [temperature : TemperatureGrid, humidity : HumidityGrid,
     bus : {"ok", "fault13", "fault15"}]

\* grid temperatures at which the binary floating-point product
\* (temperature + 273.15) * 64 falls just below the integer it equals in exact
\* arithmetic
FloatShort == {-3990}

\* int((temperature + 273.15) * 64): truncation, not rounding
temp_k(t) ==
    LET exact == ((t + 27315) * 64) \div 100
    IN  IF t \in FloatShort THEN exact - 1 ELSE exact

\* int((humidity / 100.0) * 512)
rh_fraction(h) == (h * 512) \div 10000

\* _write_word: the block [low, high] written to reg
write_word(reg, value) ==
    [reg |-> reg, block |-> <<value % 256, (value \div 256) % 256>>]

\* [ret, raised, writes]: the bare 'except' turns every fault into False
set_environment(call) ==
    LET w13 == write_word(19, temp_k(call.temperature))
        w15 == write_word(21, rh_fraction(call.humidity))
    IN  CASE call.bus = "ok" ->
                [ret |-> TRUE, raised |-> FALSE, writes |-> <<w13, w15>>]
          [] call.bus = "fault13" ->
                [ret |-> FALSE, raised |-> FALSE, writes |-> <<>>]
          [] call.bus = "fault15" ->
                [ret |-> FALSE, raised |-> FALSE, writes |-> <<w13>>]

\* a call of set_environment
SetEnvironment ==
    /\ \E call \in SetEnvironmentCalls :
        drv' = [fn |-> "ENS160.set_environment", in |-> call,
                out |-> set_environment(call), data |-> Empty]
    /\ UNCHANGED <<collectorVars, buzzerVars, loopVars>>

\* SimpleMQ2.read.  Voltages are counted in ten-thousandths of a volt, finer
\* than the three decimals read() reports.
MQ2Voltages ==
    {-10, 0, 4994, 4996, 5000, 7999, 8000, 8004, 11999, 12000, 12001, 33000}

MQ2Channels ==
    [bus : {"ok"}, value : {0, 4800}, voltage : MQ2Voltages]
    \cup {[bus |-> "fault", value |-> 0, voltage |-> 0]}

\* (variant for C26) the comparisons taken as '<='
mq2_statusInclusive(v) ==
    IF v <= 5000 THEN 0
    ELSE IF v <= 8000 THEN 1
    ELSE IF v <= 12000 THEN 2
    ELSE 3

\* the if/elif chain of lines 26-33
mq2_status(v) ==
    IF v < 5000 THEN 0
    ELSE IF v < 8000 THEN 1
    ELSE IF v < 12000 THEN 2
    ELSE 3

\* round(voltage, 3), in thousandths of a volt
round3(v) == IF v >= 0 THEN RoundDiv(v, 10) ELSE 0 - RoundDiv(0 - v, 10)

\* read(): no handler, so an ADC fault leaves the call as an exception
MQ2_read(ch) ==
    IF ch.bus = "fault"
    THEN [raised |-> TRUE]
    ELSE [raised |-> FALSE, adc |-> ch.value, voltage |-> round3(ch.voltage),
          status |-> mq2_status(ch.voltage)]

\* what the collector's MQ-2 block sees
AnswerMQ2(out) ==
    IF out.raised THEN [st |-> "raise"]
    ELSE [st |-> "ok", adc |-> Num(out.adc), voltage |-> out.voltage,
          status |-> Num(out.status)]

\* the collector's MQ-2 block on the ADC channel ch
MQ2Read ==
    /\ \E ch \in MQ2Channels :
        LET out == MQ2_read(ch)
        IN  drv' = [fn |-> "MQ2.read", in |-> ch, out |-> out,
                    data |-> BlockFields("mq2", AnswerMQ2(out))]
    /\ UNCHANGED <<collectorVars, buzzerVars, loopVars>>

-----------------------------------------------------------------------------
(* The report loop of iot_client.py: init_sensors, the MQTT callbacks      *)
(* on_connect and on_disconnect (run on the client's network thread) and   *)
(* the main loop of IotDevice_main with cleanup().  A window is run as one *)
(* step, each of its cycles either producing the fields of every available *)
(* driver or producing none.  on_message (the actuator) is left to         *)
(* SpecBuzzer: no start_buzzing is called here.                            *)

\* num_readings of the test window of init_sensors
TEST_READINGS == 3

\* num_readings of the window of a report cycle
REPORT_READINGS == 10

\* cap on report_count: a cycle starts only below it
MaxReports == 2

\* the answers of driver k in a cycle of the loop: its failure ...
FailureOf(k) == IF k = "mq2" THEN [st |-> "raise"] ELSE [st |-> "fail"]

\* ... or one fixed reading
SuccessOf(k) ==
    CASE k = "aht21" -> [st |-> "ok", humidity |-> 40000, temperature |-> 20000]
      [] k = "bmp280" ->
            [st |-> "ok", temperature |-> 30000, pressure |-> 1000000]
      [] k = "ens160" ->
            [st |-> "ok", aqi |-> Num(1), tvoc_ppb |-> Num(100),
             eco2_ppm |-> Num(400)]
      [] k = "mq2" ->
            [st |-> "ok", adc |-> Num(4800), voltage |-> 900, status |-> Num(2)]

\* a cycle in which every driver polled fails
DroppedCycle(flags, registry) ==
    [k \in Kinds |-> IF Polled(flags, registry, k) THEN FailureOf(k)
                     ELSE NotPolled]

\* a cycle in which every driver polled gives its reading
ProducingCycle(flags, registry) ==
    [k \in Kinds |-> IF Polled(flags, registry, k) THEN SuccessOf(k)
                     ELSE NotPolled]

\* the answers of the n cycles of a window of the loop: no cycle dropped,
\* the first one, the last one, or all of them
WindowEnvs(flags, registry, n) ==
    {[j \in 1..n |-> IF j \in dropped
                     THEN DroppedCycle(flags, registry)
                     ELSE ProducingCycle(flags, registry)] :
        dropped \in {{}, {1}, {n}, 1..n}}

\* the devices the program is started with: the BMP280 present or not, and
\* the three other devices present or not together
ProgramEnvs ==
    {env \in PlainEnvs :
        /\ (env.aht21 = "ok") <=> (env.ens160 = "ok")
        /\ (env.aht21 = "ok") <=> (env.mq2 = "ok")
        /\ env.compReads[1] = "ok" /\ env.compSet[1]}

\* The loop of collect_multiple_readings over the cycles' answers envs,
\* started with reading_count = count: [readings, count, polls] at its end.
\* Cycle j runs read_single_measurement with the counter as the earlier
\* cycles left it, count plus the number of them that returned a reading.
RunWindow(flags, registry, envs, count) ==
    LET cycle(j, c) == read_single_measurement(flags, registry, envs[j], c)
        kept(j) == LET r == cycle(j, count)
                   IN  ~r.raised /\ r.ret = "dict"
        before(j) == count + Cardinality({m \in 1..(j - 1) : kept(m)})
        order == SelectSeq([j \in 1..Len(envs) |-> j], kept)
    IN  [readings |-> [x \in 1..Len(order) |->
                         cycle(order[x], before(order[x])).data],
         count |-> count + Len(order),
         polls |-> IF envs = <<>> THEN <<>> ELSE cycle(Len(envs), count).polls]

\* the collector's variables after a whole collect_multiple_readings(n, _)
\* that left w = [readings, count, polls]
WindowReturned(n, w) ==
    /\ num_readings' = n
    /\ i' = n
    /\ all_readings' = w.readings
    /\ reading_count' = w.count
    /\ polls' = w.polls
    /\ cycleLog' = <<>>
    /\ sleeps' = IF n > 0 THEN n - 1 ELSE 0
    /\ raised' = FALSE
    /\ result' = [op |-> "window", ret |-> "dict",
                  data |-> WindowResult(w.readings)]

\* A payload is the JSON text json.dumps returns: the strings that occur in
\* it (keys and string values) and the numbers under 'properties'.
NoPayload == [words |-> {}, properties |-> Empty]

\* json.dumps({"error": msg})
ErrorPayload(msg) == [words |-> {"error", msg}, properties |-> Empty]

ReportWords ==
    {"services", "service_id", "properties", "EnvironmentData", "AirQuality",
     "Gas", "SystemInfo", "temperature", "humidity", "pressure", "altitude",
     "temperature_source", "timestamp", "aqi", "tvoc", "eco2", "mq2_adc",
     "mq2_voltage", "mq2_status", "data_source", "samples_count",
     "reading_count"}

\* round(x, 2) of one number
Rounded2(x) == Round2(x, 1)

\* the properties of the four services, the defaults of the .get calls
\* included; round(mq2_voltage, 3) leaves a number in thousandths as it is
format_data_for_huaweicloud(sensor_data) ==
    [words |-> ReportWords,
     properties |->
        ("temperature" :> Rounded2(Get(sensor_data, "temperature", 0)))
        @@ ("humidity" :> Rounded2(Get(sensor_data, "humidity", 0)))
        @@ ("pressure" :> Rounded2(Get(sensor_data, "pressure", 1013250)))
        @@ ("altitude" :> Rounded2(Get(sensor_data, "altitude", 0)))
        @@ ("temperature_source" :> Get(sensor_data, "temperature_source", 0))
        @@ ("aqi" :> Get(sensor_data, "aqi", 0))
        @@ ("tvoc" :> Rounded2(Get(sensor_data, "tvoc", 0)))
        @@ ("eco2" :> Get(sensor_data, "eco2", 0))
        @@ ("mq2_adc" :> Rounded2(Get(sensor_data, "mq2_adc", 0)))
        @@ ("mq2_voltage" :> Get(sensor_data, "mq2_voltage", 0))
        @@ ("mq2_status" :> Get(sensor_data, "mq2_status", 0))
        @@ ("data_source" :> Get(sensor_data, "data_source", 0))
        @@ ("samples_count" :> Get(sensor_data, "samples_count", 0))
        @@ ("reading_count" :> Get(sensor_data, "reading_count", 0))]

\* collect_all_data_and_format once the window, if one was run, returned
\* sensor_data.  No statement of its try block is known to raise, so the
\* 'except Exception' branch is not taken.
collect_all_data_and_format(collector_initialized, sensor_data) ==
    IF ~collector_initialized THEN ErrorPayload("sensors_not_initialized")
    ELSE IF IsEmpty(sensor_data) \/ Has(sensor_data, "error_code")
    THEN ErrorPayload("no_data_collected")
    ELSE format_data_for_huaweicloud(sensor_data)

\* (variant for C28) no payload is taken as an error
ContainsErrorNever(payload) == FALSE

\* '"error" in payload', a substring test on the text: of the strings a
\* payload holds only the key "error" contains it
ContainsError(payload) == "error" \in payload.words

NoCycle ==
    [connected |-> FALSE, initialized |-> FALSE, sensor_data |-> Empty,
     payload |-> NoPayload]

InitLoop ==
    loop = [pc |-> "boot",
            COLLECTOR_INITIALIZED |-> FALSE,
            CONNECTED_FLAG |-> FALSE,
            report_count |-> 0,
            cycle |-> NoCycle,
            published |-> [n |-> 0, report |-> 0, rc |-> "none",
                           payload |-> NoPayload],
            cleanups |-> 0,
            interrupted |-> FALSE]

\* the main thread is between client.loop_start() and the finally block
Running == loop.pc \in {"connecting", "top", "collect", "collected", "sleep"}

\* init_sensors as IotDevice_main calls it: the collector is constructed
\* and, when it is Ready, the test window decides COLLECTOR_INITIALIZED; on
\* False the program returns at once
InitSensors ==
    /\ loop.pc = "boot"
    /\ life = "new"
    /\ \E env \in ProgramEnvs :
        LET s == init_all_sensors(env)
            ready == AnySuccess(s.init_success)
        IN  /\ sensors' = s.sensors
            /\ init_success' = s.init_success
            /\ bmp_address' = s.bmp_address
            /\ initialized' = ready
            /\ IF ready
               THEN \E envs \in WindowEnvs(s.init_success, s.sensors,
                                            TEST_READINGS) :
                      LET w == RunWindow(s.init_success, s.sensors, envs, 0)
                          test_data == WindowResult(w.readings)
                          ok == ~IsEmpty(test_data)
                                /\ ~Has(test_data, "error_code")
                      IN  /\ WindowReturned(TEST_READINGS, w)
                          /\ loop' = [loop EXCEPT
                                        !.COLLECTOR_INITIALIZED = ok,
                                        !.pc = IF ok THEN "connecting"
                                               ELSE "exited"]
               ELSE /\ reading_count' = 0
                    /\ UNCHANGED <<num_readings, i, all_readings, polls,
                                   cycleLog, sleeps, raised, result>>
                    /\ loop' = [loop EXCEPT !.pc = "exited"]
    /\ life' = "live"
    /\ UNCHANGED <<pc, closeLog, initEnv, initTrace>>
    /\ UNCHANGED <<buzzerVars, driverVars>>

\* on_connect(client, userdata, flags, rc, properties)
OnConnect ==
    /\ Running
    /\ \E rc \in {0, 5} :
        loop' = [loop EXCEPT !.CONNECTED_FLAG = IF rc = 0 THEN TRUE ELSE @]
    /\ UNCHANGED <<collectorVars, buzzerVars, driverVars>>

\* on_disconnect(client, userdata, rc).  The client is created with
\* CallbackAPIVersion.VERSION2, whose disconnect callback is called with
\* five arguments: the call can fail with TypeError before the assignment,
\* and CONNECTED_FLAG then stays as it was.
OnDisconnect ==
    /\ Running
    /\ \E entered \in BOOLEAN :
        loop' = [loop EXCEPT !.CONNECTED_FLAG = IF entered THEN FALSE ELSE @]
    /\ UNCHANGED <<collectorVars, buzzerVars, driverVars>>

\* the wait for the connection: the loop is entered once CONNECTED_FLAG is
\* set; after 30 s without it cleanup() is called and 'return' runs the
\* finally block, which calls cleanup() again
MainWaitConnect ==
    /\ loop.pc = "connecting"
    /\ loop' = IF loop.CONNECTED_FLAG
               THEN [loop EXCEPT !.pc = "top", !.report_count = 0]
               ELSE [loop EXCEPT !.pc = "cleanup", !.cleanups = 2]
    /\ UNCHANGED <<collectorVars, buzzerVars, driverVars>>

\* 'while True: if CONNECTED_FLAG:' with 'report_count += 1'; without the
\* flag the loop sleeps 5 s and tests again
MainLoopTop ==
    /\ loop.pc = "top"
    /\ loop.report_count < MaxReports
    /\ loop' = IF loop.CONNECTED_FLAG
               THEN [loop EXCEPT
                       !.pc = "collect",
                       !.report_count = @ + 1,
                       !.cycle = [NoCycle EXCEPT !.connected = TRUE]]
               ELSE [loop EXCEPT !.cycle = NoCycle]
    /\ UNCHANGED <<collectorVars, buzzerVars, driverVars>>

\* payload = collect_all_data_and_format()
MainCollect ==
    /\ loop.pc = "collect"
    /\ IF loop.COLLECTOR_INITIALIZED
       THEN \E envs \in WindowEnvs(init_success, sensors,
                                    REPORT_READINGS) :
              LET w == RunWindow(init_success, sensors, envs, reading_count)
                  sensor_data == WindowResult(w.readings)
              IN  /\ WindowReturned(REPORT_READINGS, w)
                  /\ loop' = [loop EXCEPT
                                !.pc = "collected",
                                !.cycle.initialized = TRUE,
                                !.cycle.sensor_data = sensor_data,
                                !.cycle.payload =
                                    collect_all_data_and_format(TRUE,
                                                                sensor_data)]
       ELSE /\ UNCHANGED <<num_readings, i, all_readings, reading_count,
                           polls, cycleLog, sleeps, raised, result>>
            /\ loop' = [loop EXCEPT
                          !.pc = "collected",
                          !.cycle.payload =
                              collect_all_data_and_format(FALSE, Empty)]
    /\ UNCHANGED <<life, initialized, sensors, init_success, bmp_address, pc,
                   closeLog, initEnv, initTrace>>
    /\ UNCHANGED <<buzzerVars, driverVars>>

\* 'if "error" not in payload: client.publish(...)', with the result code
\* publish returns, else the cycle is skipped
MainPublish ==
    /\ loop.pc = "collected"
    /\ IF ContainsError(loop.cycle.payload)
       THEN loop' = [loop EXCEPT !.pc = "sleep"]
       ELSE \E rc \in {"success", "no_conn"} :
              loop' = [loop EXCEPT
                         !.pc = "sleep",
                         !.published = [n |-> @.n + 1,
                                        report |-> loop.report_count,
                                        rc |-> rc,
                                        payload |-> loop.cycle.payload]]
    /\ UNCHANGED <<collectorVars, buzzerVars, driverVars>>

\* time.sleep(config.REPORT_INTERVAL), then the next cycle
MainSleep ==
    /\ loop.pc = "sleep"
    /\ loop' = [loop EXCEPT !.pc = "top"]
    /\ UNCHANGED <<collectorVars, buzzerVars, driverVars>>

\* KeyboardInterrupt: the finally block runs
Interrupt ==
    /\ Running
    /\ loop' = [loop EXCEPT !.pc = "cleanup", !.cleanups = 1,
                            !.interrupted = TRUE]
    /\ UNCHANGED <<collectorVars, buzzerVars, driverVars>>

\* cleanup(): BUZZER_CONTROLLER.cleanup() (the actuator was never started:
\* its stop_buzzing does nothing and GPIO.cleanup releases the pin), then
\* SENSOR_COLLECTOR.close()
Cleanup ==
    /\ loop.pc = "cleanup"
    /\ CloseCollector
    /\ gpio' = "IN"
    /\ loop' = IF loop.cleanups > 1 THEN [loop EXCEPT !.cleanups = @ - 1]
               ELSE [loop EXCEPT !.pc = "exited", !.cleanups = 0]
    /\ UNCHANGED <<buzzing, timer, timers, caller, lastCall>>
    /\ UNCHANGED driverVars

-----------------------------------------------------------------------------
(* Initial state and specifications *)

InitCollector ==
    /\ life = "new"
    /\ initialized = FALSE
    /\ sensors = {}
    /\ init_success = [k \in Kinds |-> FALSE]
    /\ bmp_address = 0
    /\ reading_count = 0
    /\ pc = "idle"
    /\ num_readings = 0
    /\ i = 0
    /\ all_readings = <<>>
    /\ result = NoResult
    /\ raised = FALSE
    /\ sleeps = 0
    /\ cycleLog = <<>>
    /\ polls = <<>>
    /\ closeLog = NoCloses
    /\ initEnv = [logged |-> FALSE]
    /\ initTrace = [logged |-> FALSE]

InitBuzzer ==
    /\ buzzing = FALSE
    /\ gpio = "HIGH"
    /\ timer = 0
    /\ timers = <<>>
    /\ caller = IdleCaller
    /\ lastCall = [op |-> "none"]

InitDrivers == drv = NoCall

Init == InitCollector /\ InitBuzzer /\ InitDrivers /\ InitLoop

ConstructPlain == Construct(PlainEnvs, FALSE)

ConstructLogged == Construct(LoggedEnvs, TRUE)

\* the collector in use: construction, reads, windows, close
Next ==
    \/ ConstructPlain
    \/ ReadSingle
    \/ StartWindow
    \/ Cycle
    \/ FinishWindow
    \/ GetStatus
    \/ Close

Spec == Init /\ [][Next]_vars

\* construction with the devices' answers kept, then close
NextInit ==
    \/ ConstructLogged
    \/ Close

SpecInit == Init /\ [][NextInit]_vars

\* the actuator: the caller's calls interleaved with the timer threads
NextBuzzer ==
    \/ CallStart
    \/ CallStop
    \/ CallCleanup
    \/ CallerCleanup
    \/ CallerStop
    \/ CallerStart
    \/ TimerExpire
    \/ TimerExit
    \/ TimerCallback

SpecBuzzer == Init /\ [][NextBuzzer]_vars

\* the actuator with its threads scheduled: a thread that can take a step
\* eventually takes one, and a timer's wait eventually ends.  The calls
\* themselves (CallStart, CallStop, CallCleanup) are the environment's.
SpecBuzzerFair ==
    /\ SpecBuzzer
    /\ WF_vars(CallerStart)
    /\ WF_vars(CallerStop)
    /\ WF_vars(CallerCleanup)
    /\ WF_vars(TimerExpire)
    /\ WF_vars(TimerExit)
    /\ WF_vars(TimerCallback)

\* the drivers' reads, each on every response of its device
NextDrivers ==
    \/ AHT21Read
    \/ BMP280Read
    \/ SetEnvironment
    \/ MQ2Read

SpecDrivers == Init /\ [][NextDrivers]_vars

\* the program: init_sensors, the connection callbacks, the report loop
NextLoop ==
    \/ InitSensors
    \/ OnConnect
    \/ OnDisconnect
    \/ MainWaitConnect
    \/ MainLoopTop
    \/ MainCollect
    \/ MainPublish
    \/ MainSleep
    \/ Interrupt
    \/ Cleanup

SpecLoop == Init /\ [][NextLoop]_vars

-----------------------------------------------------------------------------
(* Properties of the collector *)

\* a window call has returned
WindowDone == pc = "idle" /\ result.op = "window"

\* a direct read_single_measurement call has returned
SingleDone == pc = "idle" /\ result.op = "single"

\* the cycle whose answers are env produced at least one field
Produced(env) == \E k \in Kinds : env[k].st = "ok"

Cycles == 1..Len(cycleLog)

\* the readings of the window that hold key
Holding(key) == {j \in 1..Len(all_readings) : Has(all_readings[j], key)}

Max(S) == CHOOSE x \in S : \A y \in S : y <= x

\* C1: a window in which no cycle produced a field (n = 0 included) returns
\* the empty-window error result, error_code = 1 and samples_count = 0; a
\* window in which some cycle produced a field returns an averaged record
\* without error_code.
C1_EmptyWindow ==
    WindowDone =>
        /\ Len(cycleLog) = num_readings
        /\ (\A j \in Cycles : ~Produced(cycleLog[j]))
              => result.data = EmptyWindowResult
        /\ (\E j \in Cycles : Produced(cycleLog[j]))
              => /\ ~Has(result.data, "error_code")
                 /\ Has(result.data, "samples_count")
                 /\ result.data["samples_count"] >= Num(1)

\* a window of two cycles in which polled drivers answered and none gave a field
C1_Witness ==
    /\ WindowDone
    /\ num_readings = 2
    /\ \A j \in Cycles : ~Produced(cycleLog[j])
    /\ \E j \in Cycles : cycleLog[j]["aht21"].st = "fail"
    /\ result.data = EmptyWindowResult

\* C2: the reduced value of a categorical field is the value in the last
\* reading of the window that holds the field, also when the final reading
\* lacks it.
C2_LastHolding ==
    (WindowDone /\ all_readings # <<>>) =>
        \A key \in Categorical :
            Holding(key) # {} =>
                /\ Has(result.data, key)
                /\ result.data[key] = all_readings[Max(Holding(key))][key]

\* C3: a record of read_single_measurement carries data_source = 0 and an
\* averaged record of collect_multiple_readings carries data_source = 1.
C3_DataSource ==
    /\ (SingleDone /\ result.ret = "dict")
          => result.data["data_source"] = Num(0)
    /\ (WindowDone /\ all_readings # <<>>)
          => result.data["data_source"] = Num(1)

\* C4: the temperature of an averaged record comes from the one driver that
\* temperature_source names: every reading whose temperature entered the mean
\* took it from that driver.
C4_OneSource ==
    (WindowDone /\ Has(result.data, "temperature")) =>
        /\ Has(result.data, "temperature_source")
        /\ \A j \in Holding("temperature") :
              all_readings[j]["temperature_source"]
                  = result.data["temperature_source"]

\* BMP280 gave no field and AHT21 gave its pair in every cycle of the window
BmpFailsAhtSucceeds ==
    /\ num_readings >= 1
    /\ \A j \in Cycles :
          /\ cycleLog[j]["bmp280"].st # "ok"
          /\ cycleLog[j]["aht21"].st = "ok"

\* C5: if BMP280 fails in every cycle of a window while AHT21 succeeds, the
\* averaged record has temperature and humidity, has neither pressure nor
\* altitude, and has temperature_source = 0.
C5_PartialFailure ==
    (WindowDone /\ BmpFailsAhtSucceeds) =>
        /\ Has(result.data, "temperature")
        /\ Has(result.data, "humidity")
        /\ ~Has(result.data, "pressure")
        /\ ~Has(result.data, "altitude")
        /\ Has(result.data, "temperature_source")
        /\ result.data["temperature_source"] = Num(0)
        /\ result.data["temperature"]
              = Mean2([j \in Cycles |-> cycleLog[j]["aht21"].temperature])

\* a window of two cycles with a registered BMP280 whose read failed twice
C5_Witness ==
    /\ WindowDone
    /\ num_readings = 2
    /\ BmpFailsAhtSucceeds
    /\ \A j \in Cycles : cycleLog[j]["bmp280"].st = "fail"
    /\ Has(result.data, "humidity")

\* the fields of a dict other than the metadata of the call
SensorFields(d) ==
    (DOMAIN d) \ {"reading_count", "data_source", "samples_count",
                  "error_code", "temperature_source"}

\* C6: a read requested while the collector is not Ready (no driver
\* initialized, or after close()) fails with a NotInitialized error result
\* and returns no sensor fields.
C6_NotInitialized ==
    ((SingleDone \/ WindowDone) /\ ~initialized) =>
        /\ result.ret = "NotInitialized"
        /\ SensorFields(result.data) = {}

\* the drivers whose flag is set, in polling order
AvailableSeq == SelectSeq(PollOrder, LAMBDA k : init_success[k])

\* the fields of kind k in a returned reading
OwnFields(k) ==
    CASE k = "aht21" -> {"humidity"}
      [] k = "bmp280" -> {"pressure", "altitude"}
      [] k = "ens160" -> {"aqi", "tvoc", "eco2"}
      [] k = "mq2" -> {"mq2_adc", "mq2_voltage", "mq2_status"}

\* kind k's fields in data are exactly what its own answer r gives
OwnContribution(k, r, data) ==
    IF r.st = "ok"
    THEN \A f \in OwnFields(k) : Has(data, f) /\ data[f] = FieldsOf(k, r)[f]
    ELSE \A f \in OwnFields(k) : ~Has(data, f)

\* C9: in a cycle of a Ready collector every available driver is polled once,
\* in the order AHT21, BMP280, ENS160, MQ-2; the fields a driver contributes
\* depend on its own answer only; a raising driver neither stops the later
\* polls nor makes the call raise.
C9_FaultIsolation ==
    /\ (life = "live" /\ (SingleDone \/ (pc = "window" /\ i > 0)))
          => polls = AvailableSeq
    /\ (life = "live" /\ SingleDone) =>
          /\ ~raised
          /\ \A k \in Kinds : OwnContribution(k, cycleLog[1][k], result.data)

\* a cycle in which AHT21 failed, MQ-2 raised and ENS160 still contributed
C9_Witness ==
    /\ life = "live"
    /\ SingleDone
    /\ cycleLog[1]["aht21"].st = "fail"
    /\ cycleLog[1]["bmp280"].st = "ok"
    /\ cycleLog[1]["mq2"].st = "raise"
    /\ cycleLog[1]["ens160"].st = "ok"
    /\ polls = PollOrder
    /\ Has(result.data, "aqi")

\* kind k's own detect/init succeeds against the answers env
DeviceOk(k, env) ==
    CASE k = "aht21" -> AHT21_init(env)
      [] k = "bmp280" -> \/ SimpleBMP280_init(118, env).ok
                         \/ SimpleBMP280_init(119, env).ok
      [] k = "ens160" -> SimpleENS160_init(env)
      [] k = "mq2" -> SimpleMQ2_init(env)

\* C10: after construction each kind's availability flag says whether that
\* kind's own detect/init succeeded, every kind was attempted, and a failed
\* ENS160 compensation withdraws no flag and skips no kind.
C10_IndependentInit ==
    (life # "new" /\ initEnv.logged) =>
        /\ initTrace.attempted = Kinds
        /\ \A k \in Kinds : init_success[k] = DeviceOk(k, initEnv.env)
        /\ life = "live" => sensors = {k \in Kinds : init_success[k]}

\* AHT21 and BMP280 failed, ENS160 and MQ-2 came up (and the reverse cannot
\* be told from this state); the compensation, had it run, never succeeded
C10_Witness ==
    /\ life = "live"
    /\ initEnv.logged
    /\ init_success = [aht21 |-> TRUE, bmp280 |-> FALSE,
                       ens160 |-> TRUE, mq2 |-> TRUE]
    /\ initTrace.comp.reads = 3
    /\ ~initTrace.comp.done

-----------------------------------------------------------------------------
(* Properties of the collector: life cycle and reduction *)

\* C11: after construction the collector is Ready (initialized) exactly when
\* at least one of the four drivers initialized, and a collector that is not
\* Ready (Failed, or closed) is never made Ready by a later operation.
C11_ReadyIffAnyDriver ==
    /\ [](life = "live" => (initialized <=> \E k \in Kinds : init_success[k]))
    /\ [][(life # "new" /\ ~initialized) => ~initialized']_vars

\* a window of two cycles has run on a collector none of whose drivers came up
C11_Witness ==
    /\ life = "live"
    /\ \A k \in Kinds : ~init_success[k]
    /\ ~initialized
    /\ WindowDone
    /\ num_readings = 2

\* the fields reduced by the mean
Continuous ==
    {"temperature", "humidity", "pressure", "tvoc", "eco2", "mq2_adc",
     "mq2_voltage"}

\* the sum of key over the first n readings of the window that hold it
RECURSIVE TotalOf(_, _)
TotalOf(key, n) ==
    IF n = 0 THEN 0
    ELSE TotalOf(key, n - 1) + Get(all_readings[n], key, 0)

\* r is a multiple of 0.01 nearest to total / n
IsRounded(r, total, n) ==
    /\ r % 10 = 0
    /\ 2 * (n * r - total) <= 10 * n
    /\ 2 * (total - n * r) <= 10 * n

\* C12: the reduced value of a continuous field is the mean, rounded to two
\* decimals, of its values over exactly the readings that hold it; a field
\* that no reading holds is absent from the record.
C12_ContinuousMean ==
    (WindowDone /\ all_readings # <<>>) =>
        \A key \in Continuous :
            IF Holding(key) = {} THEN ~Has(result.data, key)
            ELSE /\ Has(result.data, key)
                 /\ IsRounded(result.data[key],
                              TotalOf(key, Len(all_readings)),
                              Cardinality(Holding(key)))

\* two readings whose MQ-2 voltages 0.900 and 0.901 have the mean 0.9005,
\* and humidity held by one of the two only
C12_Witness ==
    /\ WindowDone
    /\ Len(all_readings) = 2
    /\ Holding("mq2_voltage") = {1, 2}
    /\ all_readings[1]["mq2_voltage"] = 900
    /\ all_readings[2]["mq2_voltage"] = 901
    /\ result.data["mq2_voltage"] = 900
    /\ Cardinality(Holding("humidity")) = 1
    /\ Has(result.data, "humidity")

\* C13: in an averaged record altitude is present exactly when pressure is,
\* and it is calculate_altitude of the record's reduced pressure, not the
\* mean of the readings' altitudes; calculate_altitude gives 0 for a
\* pressure <= 0, in a reading and in a record.
C13_AltitudeFromPressure ==
    /\ (WindowDone /\ all_readings # <<>>) =>
          /\ Has(result.data, "altitude") <=> Has(result.data, "pressure")
          /\ Has(result.data, "pressure") =>
                /\ result.data["altitude"]
                      = calculate_altitude(result.data["pressure"])
                /\ result.data["pressure"] <= 0 => result.data["altitude"] = 0
    /\ \A j \in 1..Len(all_readings) :
          (Has(all_readings[j], "pressure") /\ all_readings[j]["pressure"] <= 0)
              => all_readings[j]["altitude"] = 0

\* a reading of pressure 0 (altitude 0) and one of 1000 hPa: the record's
\* altitude is that of 500 hPa, while the readings' altitudes average 55.45
C13_Witness ==
    /\ WindowDone
    /\ Len(all_readings) = 2
    /\ Holding("pressure") = {1, 2}
    /\ all_readings[1]["pressure"] = 0
    /\ all_readings[1]["altitude"] = 0
    /\ all_readings[2]["pressure"] = 1000000
    /\ result.data["pressure"] = 500000
    /\ result.data["altitude"] = 5575350
    /\ Mean2(ValuesOf(all_readings, "altitude")) = 55450

\* C14: close() calls close on every registered driver exactly once, also
\* after an earlier driver's close raised, does not raise, and leaves the
\* collector Closed (not initialized, empty registry); Closed is terminal,
\* and a second close() closes no driver.
C14_CloseAll ==
    /\ [](life = "closed" =>
            /\ ~initialized
            /\ sensors = {}
            /\ result.op = "close" => ~raised
            /\ \A k \in Kinds :
                  closeLog.count[k] = IF init_success[k] THEN 1 ELSE 0)
    /\ [][life = "closed" => (life' = "closed" /\ ~initialized')]_vars

\* a second close() after one in which AHT21's close raised and the three
\* later drivers were still closed
C14_Witness ==
    /\ life = "closed"
    /\ closeLog.n = 2
    /\ closeLog.called = <<>>
    /\ closeLog.count = [k \in Kinds |-> 1]
    /\ closeLog.raisedBy = {"aht21"}
    /\ result.op = "close"

\* the cycles of the call that produced at least one field, in order
ProducingCycles ==
    SelectSeq([j \in Cycles |-> j], LAMBDA j : Produced(cycleLog[j]))

\* C18: a window of n cycles runs exactly n cycles; its list holds exactly
\* the readings of the cycles that produced a field, in the order of the
\* cycles; samples_count of the returned record is their number, at most n;
\* a cycle without fields is dropped and the window goes on.
C18_WindowLength ==
    /\ pc = "window" =>
          /\ Len(cycleLog) = i
          /\ i <= num_readings
          /\ Len(all_readings) = Len(ProducingCycles)
    /\ WindowDone =>
          /\ Len(cycleLog) = num_readings
          /\ Len(all_readings) = Len(ProducingCycles)
          /\ result.data["samples_count"] = Num(Len(ProducingCycles))
          /\ result.data["samples_count"] <= Num(num_readings)
          /\ \A m \in 1..Len(all_readings) :
                /\ \A k \in Kinds :
                      OwnContribution(k, cycleLog[ProducingCycles[m]][k],
                                      all_readings[m])
                /\ m > 1 => all_readings[m]["reading_count"]
                                > all_readings[m - 1]["reading_count"]

\* a window of two cycles whose first cycle was dropped (a polled AHT21
\* failed) and whose second cycle produced the only reading
C18_Witness ==
    /\ WindowDone
    /\ num_readings = 2
    /\ cycleLog[1]["aht21"].st = "fail"
    /\ ~Produced(cycleLog[1])
    /\ Produced(cycleLog[2])
    /\ Len(all_readings) = 1
    /\ result.data["samples_count"] = Num(1)

\* C19: the loop sleeps after every cycle but the last, so a window of
\* n >= 1 cycles sleeps exactly n - 1 times, also when a cycle was dropped
\* or a driver raised.
C19_SleepsBetween ==
    /\ pc = "window" =>
          sleeps = IF i < num_readings THEN i
                   ELSE IF num_readings >= 1 THEN num_readings - 1 ELSE 0
    /\ WindowDone =>
          sleeps = IF num_readings >= 1 THEN num_readings - 1 ELSE 0

\* a window of two cycles, the first dropped with MQ-2 raising: one sleep
C19_Witness ==
    /\ WindowDone
    /\ num_readings = 2
    /\ cycleLog[1]["mq2"].st = "raise"
    /\ ~Produced(cycleLog[1])
    /\ sleeps = 1

\* the reading rec of a cycle whose answers were env has the temperature
\* that the priority AHT21, then BMP280 selects
TemperatureSelected(env, rec) ==
    /\ Has(rec, "temperature")
          <=> (env["aht21"].st = "ok" \/ env["bmp280"].st = "ok")
    /\ Has(rec, "temperature_source") <=> Has(rec, "temperature")
    /\ env["aht21"].st = "ok" =>
          /\ rec["temperature"] = env["aht21"].temperature
          /\ rec["temperature_source"] = Num(0)
    /\ (env["aht21"].st # "ok" /\ env["bmp280"].st = "ok") =>
          /\ rec["temperature"] = env["bmp280"].temperature
          /\ rec["temperature_source"] = Num(1)
    /\ ~Has(rec, "temperature_aht")
    /\ ~Has(rec, "temperature_bmp")

\* C20: a returned reading has temperature exactly when AHT21 or BMP280
\* contributed; it is AHT21's value with temperature_source = 0 whenever
\* AHT21 contributed, otherwise BMP280's with temperature_source = 1; the
\* fields temperature_aht and temperature_bmp are never returned.
C20_TemperatureSelection ==
    /\ (SingleDone /\ result.ret = "dict")
          => TemperatureSelected(cycleLog[1], result.data)
    /\ (pc = "window" \/ WindowDone) =>
          \A m \in 1..Len(all_readings) :
              TemperatureSelected(cycleLog[ProducingCycles[m]],
                                  all_readings[m])

\* a single reading in which both AHT21 (20.0) and BMP280 (30.0) contributed
C20_Witness ==
    /\ SingleDone
    /\ result.ret = "dict"
    /\ cycleLog[1]["aht21"].st = "ok"
    /\ cycleLog[1]["bmp280"].st = "ok"
    /\ cycleLog[1]["bmp280"].temperature = 30000
    /\ result.data["temperature"] = 20000
    /\ result.data["temperature_source"] = Num(0)
    /\ Has(result.data, "pressure")

-----------------------------------------------------------------------------
(* Properties of the actuator *)

\* the caller's last call was a start_buzzing, it has returned, no
\* stop_buzzing was called since, and the timer it armed has not run out
OwnTimerPending ==
    /\ caller.pc = "idle"
    /\ lastCall.op = "start"
    /\ timers[lastCall.timer].state = "waiting"

\* the output sounds and the timer of the last start is armed
StillActive ==
    /\ gpio = "LOW"
    /\ buzzing
    /\ timer = lastCall.timer
    /\ ~timers[lastCall.timer].finished

\* C7: start_buzzing called while the actuator is active cancels the pending
\* timer and arms a fresh one: until the fresh timer runs out the output
\* stays active, every earlier timer that has not fired is cancelled, and
\* no timer fires twice.
C7_Debounce ==
    (OwnTimerPending /\ lastCall.active) =>
        /\ StillActive
        /\ \A id \in 1..Len(timers) :
              (id # lastCall.timer /\ timers[id].state \in {"new", "waiting"})
                  => timers[id].finished

\* C8: after start_buzzing has returned, the actuator stays active until
\* its own deadline or an explicit stop, whatever a callback of an earlier
\* timer that had begun to fire does in between.
C8_AtomicRearm == OwnTimerPending => StillActive

\* the timers that are started and neither cancelled nor run out
Armed ==
    {id \in 1..Len(timers) :
        timers[id].state = "waiting" /\ ~timers[id].finished}

\* the caller runs a statement of a stop_buzzing() it called while the
\* actuator was inactive
StopOnInactiveStep ==
    /\ caller.op = "stop"
    /\ ~caller.active
    /\ caller.pc \in StopPositions
    /\ caller' # caller

\* the caller's start_buzzing returns
StartReturns == caller.pc = "st_start" /\ caller'.pc = "idle"

\* C17: stop_buzzing on an inactive actuator changes nothing (so a second
\* stop_buzzing after a first changes nothing), and start_buzzing leaves the
\* same state whether the actuator was active or not: output active,
\* buzzing = True, exactly one armed timer.
C17_Idempotent ==
    [][/\ StopOnInactiveStep =>
             /\ buzzing' = buzzing
             /\ gpio' = gpio
             /\ Armed' = Armed
       /\ StartReturns =>
             /\ gpio' = "LOW"
             /\ buzzing'
             /\ Armed' = {timer'}]_vars

-----------------------------------------------------------------------------
(* Properties of the drivers *)

\* C15: when the decoded humidity is outside [0, 100] or the decoded
\* temperature outside [-40, 85], AHT21's read returns (None, None) and the
\* collector adds neither humidity nor temperature; a returned pair is never
\* one-sided and never clamped: both values are the decoded ones rounded to
\* one decimal.
C15_AHT21Range ==
    (drv.fn = "AHT21.read" /\ drv.in.bus = "ok") =>
        LET h == humidity_raw(drv.in)
            t == temperature_raw(drv.in)
            outside == \/ h * 100 > 100 * 1048576
                       \/ t * 200 < 10 * 1048576
                       \/ t * 200 > 135 * 1048576
        IN  /\ ~drv.out.raised
            /\ (drv.out.humidity = None) <=> (drv.out.temperature = None)
            /\ (drv.out.humidity = None) <=> outside
            /\ outside => (~Has(drv.data, "humidity")
                           /\ ~Has(drv.data, "temperature_aht"))
            /\ ~outside =>
                  LET ht == drv.out.humidity[1] \div 100
                      tt == (drv.out.temperature[1] \div 100) + 500
                  IN  /\ drv.out.humidity[1] = ht * 100
                      /\ drv.out.temperature[1] = (tt - 500) * 100
                      /\ 2 * (ht * 1048576 - h * 1000) <= 1048576
                      /\ 2 * (h * 1000 - ht * 1048576) <= 1048576
                      /\ 2 * (tt * 1048576 - t * 2000) <= 1048576
                      /\ 2 * (t * 2000 - tt * 1048576) <= 1048576
                      /\ drv.data["humidity"] = drv.out.humidity[1]
                      /\ drv.data["temperature_aht"] = drv.out.temperature[1]

\* a response that decodes to 100.0 % and 87.4 C: nothing is returned
C15_Witness ==
    /\ drv.fn = "AHT21.read"
    /\ drv.in.data = <<28, 255, 255, 106, 255, 0>>
    /\ drv.out.humidity = None
    /\ drv.out.temperature = None
    /\ drv.data = Empty

\* C16: BMP280's read neither raises nor divides by zero; when the
\* first-stage divisor is 0 (as with dig_P1 = 0) or the bus faults it returns
\* (None, None) and the reading gets none of temperature_bmp, pressure and
\* altitude; it never returns a temperature without a pressure.
C16_BMP280ZeroDivisor ==
    drv.fn = "BMP280.read" =>
        /\ ~drv.out.raised
        /\ ~drv.out.divzero
        /\ (drv.out.temperature = None) <=> (drv.out.pressure = None)
        /\ (drv.in.bus = "ok" /\ drv.in.dig_P1 = 0)
              => FirstStageDivisor(drv.in) = 0
        /\ (drv.in.bus = "fault" \/ FirstStageDivisor(drv.in) = 0) =>
              /\ drv.out.temperature = None
              /\ drv.out.pressure = None
              /\ drv.data = Empty
        /\ (drv.in.bus = "ok" /\ FirstStageDivisor(drv.in) # 0) =>
              /\ drv.out.pressure # None
              /\ DOMAIN drv.data = {"temperature_bmp", "pressure", "altitude"}

\* a device whose dig_P1 is 0 answered on the bus and gave no field
C16_Witness ==
    /\ drv.fn = "BMP280.read"
    /\ drv.in.bus = "ok"
    /\ drv.in.dig_P1 = 0
    /\ FirstStageDivisor(drv.in) = 0
    /\ drv.out.pressure = None
    /\ drv.data = Empty

\* C21: after construction no step (read, window, status, close) changes an
\* entry of init_success or the committed BMP280 address, none registers a
\* driver or probes a device again, and every driver polled in a cycle has
\* its flag True.
C21_AvailabilityFrozen ==
    /\ [][life # "new" =>
            /\ life' # "new"
            /\ init_success' = init_success
            /\ bmp_address' = bmp_address
            /\ sensors' \subseteq sensors
            /\ initEnv' = initEnv
            /\ initTrace' = initTrace]_vars
    /\ [](\A j \in 1..Len(polls) : init_success[polls[j]])

\* a status call on a closed collector that had read once, with one driver
\* unavailable and one available: the table is reported as it was built
C21_Witness ==
    /\ life = "closed"
    /\ result.op = "status"
    /\ reading_count = 1
    /\ init_success["aht21"]
    /\ ~init_success["mq2"]
    /\ result.data["sensor_status.aht21"] = Num(1)
    /\ result.data["sensor_status.mq2"] = Num(0)
    /\ result.data["initialized"] = Num(0)

\* the answers of the cycle a step has just run
LastCycle == cycleLog'[Len(cycleLog')]

\* the step is a direct read_single_measurement call (the only step that
\* leaves a result of op "single" while the collector stays idle)
SingleStep == life # "new" /\ pc = "idle" /\ pc' = "idle" /\ result'.op = "single"

\* the step is one cycle of a window
CycleStep == pc = "window" /\ i' = i + 1

\* the step is the return of a window
WindowReturn == pc = "window" /\ pc' = "idle"

\* the call in progress or just returned started with this counter value
CountAtStart == reading_count - Len(all_readings)

\* C22: reading_count starts at 0; a cycle that produced a field stamps its
\* reading with the counter and then adds exactly 1, a dropped cycle and
\* every other operation leave the counter alone; a returned record carries
\* a reading_count below the counter and not below the counter's value when
\* its call started, so the values of successive records strictly increase.
C22_MonotonicCounter ==
    /\ reading_count = 0
    /\ [][/\ ((SingleStep \/ CycleStep) /\ Produced(LastCycle))
                => reading_count' = reading_count + 1
          /\ ((SingleStep \/ CycleStep) /\ ~Produced(LastCycle))
                => reading_count' = reading_count
          /\ ~(SingleStep \/ CycleStep) => reading_count' = reading_count
          /\ (SingleStep /\ Produced(LastCycle))
                => result'.data["reading_count"] = Num(reading_count)
          /\ (CycleStep /\ Produced(LastCycle))
                => /\ Len(all_readings') = Len(all_readings) + 1
                   /\ all_readings'[Len(all_readings')]["reading_count"]
                         = Num(reading_count)
          /\ (WindowReturn /\ all_readings # <<>>)
                => result'.data["reading_count"] >= Num(CountAtStart)]_vars
    /\ []((result.ret = "dict" /\ Has(result.data, "reading_count"))
             => result.data["reading_count"] < Num(reading_count))

\* a window of one reading returned after an earlier single read: the records
\* carry 0 and then 1, and the counter stands at 2
C22_Witness ==
    /\ WindowDone
    /\ num_readings = 1
    /\ Len(all_readings) = 1
    /\ reading_count = 2
    /\ result.data["reading_count"] = Num(1)

\* the compensation tries whose AHT21 read gave a pair and whose
\* set_environment then returned True, by the devices' logged answers
SuccessfulTries ==
    {j \in 1..3 : initEnv.env.compReads[j] = "ok" /\ initEnv.env.compSet[j]}

\* the number of tries the loop makes: up to the first successful one
TriesMade ==
    IF SuccessfulTries = {} THEN 3
    ELSE CHOOSE j \in SuccessfulTries : \A m \in SuccessfulTries : j <= m

\* C23: the cross-calibration runs only when both AHT21 and ENS160
\* initialized; it makes at most 3 AHT21 reads, calls set_environment exactly
\* for the reads that gave a pair, stops at the first call that succeeds,
\* pauses after every try that did not succeed, and when no try succeeds
\* ENS160 stays available and the MQ-2 is still initialized.
C23_CrossCalibration ==
    (initEnv.logged /\ life # "new") =>
        LET c == initTrace.comp
            both == init_success["aht21"] /\ init_success["ens160"]
        IN  /\ ~both => c = NoComp
            /\ both =>
                 /\ c.reads = TriesMade
                 /\ c.reads <= 3
                 /\ c.sets = Cardinality({j \in 1..TriesMade :
                                            initEnv.env.compReads[j] = "ok"})
                 /\ c.done <=> SuccessfulTries # {}
                 /\ c.done => /\ initEnv.env.compSet[c.reads]
                              /\ \A j \in 1..(c.reads - 1) :
                                    ~initEnv.env.compSet[j]
                 /\ c.sleeps = IF c.done THEN c.reads - 1 ELSE c.reads
            /\ SimpleENS160_init(initEnv.env) =>
                 /\ init_success["ens160"]
                 /\ initTrace.attempted = Kinds

\* the first read gave no pair, the second did and set_environment took it:
\* two reads, one call, one pause, and the third try never ran
C23_Witness ==
    /\ initEnv.logged
    /\ life = "live"
    /\ init_success["aht21"]
    /\ init_success["ens160"]
    /\ initEnv.env.compReads[1] = "fail"
    /\ initEnv.env.compReads[2] = "ok"
    /\ initEnv.env.compSet[2]
    /\ initEnv.env.compReads[3] = "ok"
    /\ initTrace.comp = [reads |-> 2, sets |-> 1, sleeps |-> 1, done |-> TRUE]

\* by the logged answers, address a answers the chip-id read with 0x58 and
\* the calibration read and configuration writes succeed there
AnswersAsBMP280(a) == Probe(a, initEnv.env) = "id58" /\ initEnv.env.bmpCfg[a]

\* the first such address in the order 0x76, 0x77; 0 when there is none
FirstBMP280Address ==
    IF AnswersAsBMP280(118) THEN 118
    ELSE IF AnswersAsBMP280(119) THEN 119
    ELSE 0

\* C25: whatever the two addresses answer (identity 0x58, another identity, a
\* bus fault), BMP280 is available exactly when 0x76 or 0x77 answers with
\* identity 0x58 and is calibrated and configured there; the driver keeps
\* the first such address in the order 0x76, 0x77, and none otherwise.
C25_BMP280AddressProbing ==
    (initEnv.logged /\ life # "new") =>
        /\ init_success["bmp280"] <=> (AnswersAsBMP280(118) \/ AnswersAsBMP280(119))
        /\ bmp_address = FirstBMP280Address
        /\ life = "live" => (("bmp280" \in sensors) <=> init_success["bmp280"])
        /\ (initEnv.env.r76 # "id58" /\ initEnv.env.r77 # "id58")
              => ~init_success["bmp280"]

\* no device answers at 0x76, the one at 0x77 has identity 0x58: the second
\* constructor call commits to 0x77
C25_Witness ==
    /\ initEnv.logged
    /\ life = "live"
    /\ initEnv.env.r76 = "fault"
    /\ initEnv.env.r77 = "id58"
    /\ init_success["bmp280"]
    /\ bmp_address = 119

\* C24: set_environment writes round((T + 273.15) * 64) to register 0x13 and
\* round(H / 100 * 512) to register 0x15, each as low byte then high byte,
\* and returns False without raising when the bus faults.
C24_EnvironmentEncoding ==
    drv.fn = "ENS160.set_environment" =>
        LET kelvin == RoundDiv((drv.in.temperature + 27315) * 64, 100)
            humid == RoundDiv(drv.in.humidity * 512, 10000)
        IN  /\ ~drv.out.raised
            /\ drv.in.bus = "ok" =>
                 /\ drv.out.ret
                 /\ drv.out.writes =
                       <<[reg |-> 19, block |-> <<kelvin % 256, kelvin \div 256>>],
                         [reg |-> 21, block |-> <<humid % 256, humid \div 256>>]>>
            /\ drv.in.bus # "ok" => ~drv.out.ret

\* the thresholds of {0.5, 0.8, 1.2} V, in ten-thousandths, that are <= v
ThresholdsReached(v) == {t \in {5000, 8000, 12000} : t <= v}

\* C26: the status of an MQ-2 reading is the number of thresholds of
\* {0.5, 0.8, 1.2} V that the measured voltage has reached; it lies in 0..3
\* and does not decrease when the voltage grows.
C26_MQ2Classification ==
    /\ (drv.fn = "MQ2.read" /\ ~drv.out.raised) =>
          /\ drv.out.status = Cardinality(ThresholdsReached(drv.in.voltage))
          /\ drv.out.status \in 0..3
          /\ drv.data["mq2_status"] = Num(drv.out.status)
    /\ \A v \in MQ2Voltages, w \in MQ2Voltages :
          v <= w => mq2_status(v) <= mq2_status(w)

\* a voltage exactly at the first threshold is tier 1, and it was read
C26_Witness ==
    /\ drv.fn = "MQ2.read"
    /\ drv.in.voltage = 5000
    /\ drv.out.status = 1
    /\ drv.out.voltage = 500

\* the output is inactive
Inactive == gpio = "HIGH" /\ ~buzzing

\* C27: once start_buzzing has returned, the output becomes inactive (pin
\* HIGH, buzzing False) unless the caller makes another call first; and once
\* cleanup() has returned, buzzing is False, the pin is not driven LOW and no
\* timer is armed.
C27_AutoOff ==
    /\ (caller.pc = "idle" /\ lastCall.op = "start")
          ~> (Inactive \/ caller.pc # "idle")
    /\ [](caller.pc = "exited" =>
             /\ ~buzzing
             /\ gpio # "LOW"
             /\ Armed = {})

\* no call is in progress and no timer callback is running
Quiescent ==
    /\ caller.pc \in {"idle", "exited"}
    /\ \A id \in 1..Len(timers) : timers[id].state # "firing"

\* C29: between the operations of the controller, buzzing is True exactly
\* when the pin is LOW, at most one timer is armed, and none is armed while
\* buzzing is False.
C29_ActuatorConsistency ==
    Quiescent =>
        /\ buzzing <=> gpio = "LOW"
        /\ Cardinality(Armed) <= 1
        /\ ~buzzing => Armed = {}

\* the step calls client.publish
PublishStep == loop'.published.n = loop.published.n + 1

\* the current cycle got no usable reading or ran without the collector
CycleUnusable ==
    \/ ~loop.COLLECTOR_INITIALIZED
    \/ IsEmpty(loop.cycle.sensor_data)
    \/ Has(loop.cycle.sensor_data, "error_code")

=============================================================================
